---- MODULE Spec2Model ----
(***************************************************************************)
(* Model of the westack-base data layer: the EntityManager over the        *)
(* Memgraph property graph, the ComponentTypeManager registry and its      *)
(* validator, the schema initializer, and the InfluxWriterService batch    *)
(* buffer.                                                                 *)
(***************************************************************************)
EXTENDS Integers, Sequences, FiniteSets, Bags, TLC

(***************************************************************************)
(* Bounds of the model.                                                    *)
(***************************************************************************)
MaxEntityNodes == 2
MaxComponents == 3
MaxClock == 1
MaxRels == 2
MaxWrites == 3
MaxSends == 3

(* InfluxWriterService.BATCH_SIZE, scaled from 1000. *)
BATCH_SIZE == 2

VARIABLES
    constraints,     \* uniqueness constraints in force in the graph store
    schemaReady,     \* initializeSchema has completed
    componentTypes,  \* bag of :ComponentType meta-nodes
    relationshipTypes, \* bag of :RelationshipType meta-nodes
    entities,        \* :Entity nodes, by node slot
    components,      \* bag of :Component nodes with their HAS_COMPONENT owner
    rels,            \* bag of relationship edges between :Entity nodes
    now,             \* the store's timestamp() clock
    ret,             \* outcome of the last EntityManager call
    calls,           \* EntityManager calls in progress: where each one is
    buffer,          \* InfluxWriterService.buffer
    flushTimer,      \* InfluxWriterService.flushTimer is set
    sent,            \* every client.writePoints call so far, with its outcome
    delivered,       \* batches the backend accepted, in order of completion
    written,         \* number of points accepted by writePoint so far
    closing,         \* the latest close() call: where it is, and what its flush took
    pointFields      \* the fields of each point writePoint accepted, by point number

storeVars == <<constraints, schemaReady, componentTypes, relationshipTypes, entities, components,
               rels, now, ret, calls>>
writerVars == <<buffer, flushTimer, sent, delivered, written, closing, pointFields>>
vars == <<constraints, schemaReady, componentTypes, relationshipTypes, entities, components, rels,
          now, ret, calls,
          buffer, flushTimer, sent, delivered, written, closing, pointFields>>

(***************************************************************************)
(* Property values.  A JavaScript value is a kind and a printed form.      *)
(***************************************************************************)
Absent == [kind |-> "absent", val |-> ""]
N100 == [kind |-> "number", val |-> "100"]
N200 == [kind |-> "number", val |-> "200"]
SLiIon == [kind |-> "string", val |-> "Li-ion"]
DDay == [kind |-> "Date", val |-> "2025-01-01T00:00:00.000Z"]
BTrue == [kind |-> "boolean", val |-> "true"]
OEmpty == [kind |-> "object", val |-> "{}"]

PropertyNames == {"capacity", "chemistry", "installed"}

NoProps == [p \in PropertyNames |-> Absent]
Props(name, v) == [NoProps EXCEPT ![name] = v]

(* `name in properties` *)
HasKey(properties, name) == properties[name] # Absent

(* JSON.stringify of one value: a Date is written by toJSON as a string. *)
JsonStringifyValue(v) ==
    IF v.kind = "Date" THEN [json |-> "string", text |-> v.val]
    ELSE [json |-> v.kind, text |-> v.val]

(* JSON.parse of one token. *)
JsonParseValue(t) == [kind |-> t.json, val |-> t.text]

JsonStringify(properties) == [p \in PropertyNames |-> JsonStringifyValue(properties[p])]
JsonParse(text) == [p \in PropertyNames |-> JsonParseValue(text[p])]

(* The sub-bag of the given elements, and the bag without them. *)
Restrict(bag, keep) == [c \in (DOMAIN bag) \cap keep |-> bag[c]]
Without(bag, drop) == [c \in (DOMAIN bag) \ drop |-> bag[c]]

(***************************************************************************)
(* ComponentTypeManager                                                    *)
(***************************************************************************)
TypeNames == {"Battery", "AHU"}
NoType == [name |-> "", properties |-> <<>>]

BatteryType ==
    [name |-> "Battery",
     properties |-> << [name |-> "capacity", type |-> "Number", required |-> TRUE],
                       [name |-> "chemistry", type |-> "String", required |-> FALSE] >>]
AHUType ==
    [name |-> "AHU",
     properties |-> << [name |-> "installed", type |-> "Date", required |-> FALSE] >>]
Catalog == {BatteryType, AHUType}

(* `data.description || null`: a missing or empty description is sent as   *)
(* null, and SET of null leaves the node without the property.             *)
Str(text) == [kind |-> "string", val |-> text]
DescriptionOf(data) == IF "description" \in DOMAIN data THEN data.description ELSE Absent
DescriptionOrNull(data) ==
    IF DescriptionOf(data) \in {Absent, Str("")} THEN Absent ELSE DescriptionOf(data)

(* properties: JSON.stringify(data.properties), and the JSON.parse of      *)
(* mapToComponentType when the stored property is a string.                *)
StringifyDefinitions(properties) == [kind |-> "string", json |-> properties]
ParseDefinitions(stored) == IF stored.kind = "string" THEN stored.json ELSE stored

mapToComponentType(props) ==
    [name |-> props.name,
     properties |-> ParseDefinitions(props.properties),
     description |-> props.description]

(* MATCH (ct:ComponentType {name: $name}); records[0] is the one node of   *)
(* that name.                                                               *)
getComponentType(name) ==
    LET records == { ct \in DOMAIN componentTypes : ct.name = name } IN
    IF records = {} THEN NoType ELSE mapToComponentType(CHOOSE ct \in records : TRUE)

(* MATCH (ct:ComponentType) RETURN count(ct) *)
getCount == BagCardinality(componentTypes)

(* validatePropertyType whose default case rejects. *)
validatePropertyTypeDefaultRejects(value, expectedType) ==
    CASE expectedType = "String" -> value.kind = "string"
      [] expectedType = "Number" -> value.kind = "number"
      [] expectedType = "Boolean" -> value.kind = "boolean"
      [] expectedType = "Date" -> value.kind = "Date" \/ value.kind = "string"
      [] expectedType = "JSON" -> TRUE
      [] OTHER -> FALSE

validatePropertyType(value, expectedType) ==
    CASE expectedType = "String" -> value.kind = "string"
      [] expectedType = "Number" -> value.kind = "number"
      [] expectedType = "Boolean" -> value.kind = "boolean"
      [] expectedType = "Date" -> value.kind = "Date" \/ value.kind = "string"
      [] expectedType = "JSON" -> TRUE
      [] OTHER -> TRUE

(* The errors one declared property contributes, in the order pushed. *)
PropertyErrors(prop, properties) ==
    (IF prop.required /\ ~HasKey(properties, prop.name)
       THEN << [kind |-> "MissingRequired", name |-> prop.name] >> ELSE << >>)
    \o
    (IF HasKey(properties, prop.name) /\ ~validatePropertyType(properties[prop.name], prop.type)
       THEN << [kind |-> "InvalidType", name |-> prop.name] >> ELSE << >>)

RECURSIVE CollectErrors(_, _)
CollectErrors(props, properties) ==
    IF props = << >> THEN << >>
    ELSE PropertyErrors(Head(props), properties) \o CollectErrors(Tail(props), properties)

(* validateComponent that lets an unregistered type pass unchecked. *)
validateComponentUnknownPasses(componentType, properties) ==
    LET type == getComponentType(componentType) IN
    IF type = NoType
      THEN [valid |-> TRUE, errors |-> << >>]
      ELSE LET errors == CollectErrors(type.properties, properties) IN
           [valid |-> errors = << >>, errors |-> errors]

validateComponent(componentType, properties) ==
    LET type == getComponentType(componentType) IN
    IF type = NoType
      THEN [valid |-> FALSE,
            errors |-> << [kind |-> "UnknownType", name |-> componentType] >>]
      ELSE LET errors == CollectErrors(type.properties, properties) IN
           [valid |-> errors = << >>, errors |-> errors]

(* MERGE (n {name}) SET ...: every node of that name is given the fields, *)
(* and one is created when there is none.                                  *)
Merge(nodes, name, node) ==
    LET matched == { n \in DOMAIN nodes : n.name = name } IN
    IF matched = {} THEN nodes (+) SetToBag({node})
    ELSE Without(nodes, matched) (+) (node :> BagCardinality(Restrict(nodes, matched)))

(* registerComponentType with CREATE in place of MERGE. *)
registerComponentTypeCreate(data) ==
    /\ componentTypes' = componentTypes (+) SetToBag({
                           [name |-> data.name,
                            properties |-> StringifyDefinitions(data.properties),
                            description |-> DescriptionOrNull(data),
                            updatedAt |-> now] })
    /\ UNCHANGED <<constraints, schemaReady, relationshipTypes, entities, components, rels, now, ret>>
    /\ UNCHANGED writerVars
    /\ UNCHANGED calls

registerComponentType(data) ==
    /\ componentTypes' = Merge(componentTypes, data.name,
                               [name |-> data.name,
                                properties |-> StringifyDefinitions(data.properties),
                                description |-> DescriptionOrNull(data),
                                updatedAt |-> now])
    /\ UNCHANGED <<constraints, schemaReady, relationshipTypes, entities, components, rels, now, ret>>
    /\ UNCHANGED writerVars
    /\ UNCHANGED calls

(***************************************************************************)
(* RelationshipTypeManager                                                 *)
(***************************************************************************)
NoRelationshipType == [name |-> ""]

(* props.isBrickSchema of a node without the property is undefined. *)
mapToRelationshipType(props) ==
    IF "isBrickSchema" \in DOMAIN props
      THEN [name |-> props.name,
            fromEntity |-> props.fromEntity,
            toEntity |-> props.toEntity,
            properties |-> ParseDefinitions(props.properties),
            isBrickSchema |-> props.isBrickSchema,
            description |-> props.description]
      ELSE [name |-> props.name,
            fromEntity |-> props.fromEntity,
            toEntity |-> props.toEntity,
            properties |-> ParseDefinitions(props.properties),
            description |-> props.description]

getRelationshipType(name) ==
    LET records == { rt \in DOMAIN relationshipTypes : rt.name = name } IN
    IF records = {} THEN NoRelationshipType
    ELSE mapToRelationshipType(CHOOSE rt \in records : TRUE)

(* getCount().total *)
getRelationshipTypeCount == BagCardinality(relationshipTypes)

registerRelationshipType(data) ==
    /\ relationshipTypes' = Merge(relationshipTypes, data.name,
                                  [name |-> data.name,
                                   fromEntity |-> data.fromEntity,
                                   toEntity |-> data.toEntity,
                                   properties |-> StringifyDefinitions(data.properties),
                                   isBrickSchema |-> data.isBrickSchema,
                                   description |-> DescriptionOrNull(data),
                                   updatedAt |-> now])
    /\ UNCHANGED <<constraints, schemaReady, componentTypes, entities, components, rels, now, ret>>
    /\ UNCHANGED writerVars
    /\ UNCHANGED calls

(***************************************************************************)
(* SchemaInitializer.  A Cypher file is its lines; a statement line ends   *)
(* with the semicolon that closes the statement.                           *)
(***************************************************************************)
CommentLine == [kind |-> "comment", creates |-> ""]
BlankLine == [kind |-> "blank", creates |-> ""]
StatementLine(c) == [kind |-> "statement", creates |-> c]

ConstraintsFile ==
    << CommentLine, CommentLine, CommentLine, CommentLine, CommentLine, BlankLine,
       CommentLine, StatementLine("Entity.id"), BlankLine,
       CommentLine, StatementLine("ComponentType.name"), BlankLine,
       CommentLine, StatementLine("RelationshipType.name"), BlankLine,
       CommentLine, CommentLine >>

(* cypherContent.split(';'): the chunks between semicolons. *)
RECURSIVE SplitBySemicolon(_, _)
SplitBySemicolon(lines, chunk) ==
    IF lines = << >> THEN << chunk >>
    ELSE IF Head(lines).kind = "statement"
      THEN << Append(chunk, Head(lines)) >> \o SplitBySemicolon(Tail(lines), << >>)
      ELSE SplitBySemicolon(Tail(lines), Append(chunk, Head(lines)))

(* s.trim(): leading and trailing blank lines go. *)
RECURSIVE TrimLeft(_)
TrimLeft(chunk) ==
    IF chunk # << >> /\ Head(chunk).kind = "blank" THEN TrimLeft(Tail(chunk)) ELSE chunk

RECURSIVE TrimRight(_)
TrimRight(chunk) ==
    IF chunk # << >> /\ chunk[Len(chunk)].kind = "blank"
      THEN TrimRight(SubSeq(chunk, 1, Len(chunk) - 1)) ELSE chunk

Trim(chunk) == TrimRight(TrimLeft(chunk))

(* the filter: s.length > 0 && !s.startsWith('--') *)
KeepStatement(chunk) == chunk # << >> /\ Head(chunk).kind # "comment"

RECURSIVE FilterStatements(_)
FilterStatements(chunks) ==
    IF chunks = << >> THEN << >>
    ELSE (IF KeepStatement(Trim(Head(chunks))) THEN << Trim(Head(chunks)) >> ELSE << >>)
         \o FilterStatements(Tail(chunks))

(* What one chunk handed to executeWrite creates in the store. *)
executeWrite(statement) ==
    { statement[k].creates : k \in { j \in DOMAIN statement : statement[j].kind = "statement" } }

(* The constraints in force after the file's statements have run. *)
runCypherFile(file) ==
    LET statements == FilterStatements(SplitBySemicolon(file, << >>)) IN
    UNION { executeWrite(statements[i]) : i \in DOMAIN statements }

initializeSchema ==
    /\ ~schemaReady
    /\ constraints' = constraints \cup runCypherFile(ConstraintsFile)
    /\ schemaReady' = TRUE
    /\ UNCHANGED <<componentTypes, relationshipTypes, entities, components, rels, now, ret>>
    /\ UNCHANGED writerVars
    /\ UNCHANGED calls

(***************************************************************************)
(* EntityManager over the property graph.                                  *)
(***************************************************************************)
EntityIds == {"e1", "e2"}
RelTypes == {"feeds", "controls"}
NodeIds == 1..MaxEntityNodes
NoNode == [id |-> "", createdAt |-> -1, updatedAt |-> -1]
NoError == [kind |-> "", subject |-> "", errors |-> << >>]
NullEntity == [id |-> "", components |-> EmptyBag, createdAt |-> -1, updatedAt |-> -1]

(* MATCH (e:Entity {id: $id}) *)
NodesWithId(id) == { n \in NodeIds : entities[n].id = id }
FreeNodes == { n \in NodeIds : entities[n] = NoNode }
NewNode == CHOOSE n \in FreeNodes : \A m \in FreeNodes : n <= m

(* (e)-[:HAS_COMPONENT]->(c:Component) for e among owners *)
ComponentsOf(owners) == { c \in DOMAIN components : c.owner \in owners }

(* One record of getEntity's query: the node joined with what it owns. *)
ComponentView(c) == [componentType |-> c.type, properties |-> JsonParse(c.properties)]
EntityView(n) ==
    [id |-> entities[n].id,
     components |-> BagOfAll(ComponentView, Restrict(components, ComponentsOf({n}))),
     createdAt |-> entities[n].createdAt,
     updatedAt |-> entities[n].updatedAt]

(* getEntity returns result.records[0]; the store fixes no order among the   *)
(* records, so with several nodes of one id any of them may be returned.     *)
getEntity(id) ==
    IF NodesWithId(id) = {} THEN {NullEntity} ELSE { EntityView(n) : n \in NodesWithId(id) }

(* validateComponents stopping after the first component of the list. *)
validateComponentsFirstOnly(comps) ==
    IF comps = << >> THEN NoError
    ELSE LET validation == validateComponent(Head(comps).componentType, Head(comps).properties) IN
         IF ~validation.valid
           THEN [kind |-> "InvalidComponent", subject |-> Head(comps).componentType,
                 errors |-> validation.errors]
           ELSE NoError

RECURSIVE validateComponents(_)
validateComponents(comps) ==
    IF comps = << >> THEN NoError
    ELSE LET validation == validateComponent(Head(comps).componentType, Head(comps).properties) IN
         IF ~validation.valid
           THEN [kind |-> "InvalidComponent", subject |-> Head(comps).componentType,
                 errors |-> validation.errors]
           ELSE validateComponents(Tail(comps))

(* for (const component of components): MATCH (e:Entity {id}) CREATE (c) CREATE (e)-[:HAS_COMPONENT]->(c) *)
RECURSIVE CreateComponents(_, _, _)
CreateComponents(bag, owners, comps) ==
    IF comps = << >> THEN bag
    ELSE CreateComponents(
           bag (+) SetToBag({ [owner |-> o, type |-> Head(comps).componentType,
                               properties |-> JsonStringify(Head(comps).properties)] : o \in owners }),
           owners, Tail(comps))

Touch(nodes) ==
    [n \in NodeIds |-> IF n \in nodes THEN [entities[n] EXCEPT !.updatedAt = now] ELSE entities[n]]

Return(OP, value) ==
    ret' = [op |-> OP, status |-> "ok", error |-> NoError, value |-> value]

(* A throw before, or inside, the write transaction: nothing is committed. *)
Throw(OP, error) ==
    /\ ret' = [op |-> OP, status |-> "error", error |-> error, value |-> "none"]
    /\ UNCHANGED <<entities, components, rels>>

Failure(kind, subject) == [kind |-> kind, subject |-> subject, errors |-> << >>]

createEntity(id, comps) ==
    /\ LET error == validateComponents(comps) IN
       IF error # NoError THEN Throw("createEntity", error)
       ELSE IF "Entity.id" \in constraints /\ NodesWithId(id) # {}
         THEN Throw("createEntity", Failure("ConstraintViolation", id))
         ELSE /\ FreeNodes # {}
              /\ LET created == CreateComponents(components, NodesWithId(id) \cup {NewNode}, comps) IN
                 /\ BagCardinality(created) <= MaxComponents
                 /\ components' = created
              /\ entities' = [entities EXCEPT ![NewNode] =
                                [id |-> id, createdAt |-> now, updatedAt |-> now]]
              /\ UNCHANGED rels
              /\ Return("createEntity", "entity")
    /\ UNCHANGED <<constraints, schemaReady, componentTypes, relationshipTypes, now>>
    /\ UNCHANGED writerVars
    /\ UNCHANGED calls

updateEntity(id, comps) ==
    /\ \E existing \in getEntity(id) :
         IF existing = NullEntity
           THEN Throw("updateEntity", Failure("NotFound", id))
           ELSE LET error == validateComponents(comps) IN
                IF error # NoError THEN Throw("updateEntity", error)
                ELSE /\ LET kept == Without(components, ComponentsOf(NodesWithId(id)))
                            created == CreateComponents(kept, NodesWithId(id), comps) IN
                        /\ BagCardinality(created) <= MaxComponents
                        /\ components' = created
                     /\ entities' = Touch(NodesWithId(id))
                     /\ UNCHANGED rels
                     /\ Return("updateEntity", "entity")
    /\ UNCHANGED <<constraints, schemaReady, componentTypes, relationshipTypes, now>>
    /\ UNCHANGED writerVars
    /\ UNCHANGED calls

(* MATCH (e) OPTIONAL MATCH (e)-[r1:HAS_COMPONENT]->(c) OPTIONAL MATCH (e)-[r2]->()   *)
(* OPTIONAL MATCH ()-[r3]->(e) DELETE e, c, r1, r2, r3                                *)
DeleteNodesOutgoingOnly(nodes) ==
    /\ entities' = [n \in NodeIds |-> IF n \in nodes THEN NoNode ELSE entities[n]]
    /\ components' = Without(components, ComponentsOf(nodes))
    /\ rels' = Without(rels, { r \in DOMAIN rels : r.from \in nodes })

(* DeleteNodes leaving the components of the deleted nodes in the store. *)
DeleteNodesKeepComponents(nodes) ==
    /\ entities' = [n \in NodeIds |-> IF n \in nodes THEN NoNode ELSE entities[n]]
    /\ components' = components
    /\ rels' = Without(rels, { r \in DOMAIN rels : r.from \in nodes }
                               \cup { r \in DOMAIN rels : r.to \in nodes })

DeleteNodes(nodes) ==
    /\ entities' = [n \in NodeIds |-> IF n \in nodes THEN NoNode ELSE entities[n]]
    /\ components' = Without(components, ComponentsOf(nodes))
    /\ rels' = Without(rels, { r \in DOMAIN rels : r.from \in nodes }
                               \cup { r \in DOMAIN rels : r.to \in nodes })

(* deleteEntity without the getEntity check: it always runs the DELETE and  *)
(* returns true.                                                            *)
deleteEntityNoExistenceCheck(id) ==
    /\ DeleteNodes(NodesWithId(id))
    /\ Return("deleteEntity", "true")
    /\ UNCHANGED <<constraints, schemaReady, componentTypes, relationshipTypes, now>>
    /\ UNCHANGED writerVars
    /\ UNCHANGED calls

deleteEntity(id) ==
    /\ \E existing \in getEntity(id) :
         IF existing = NullEntity
           THEN /\ UNCHANGED <<entities, components, rels>>
                /\ Return("deleteEntity", "false")
           ELSE /\ DeleteNodes(NodesWithId(id))
                /\ Return("deleteEntity", "true")
    /\ UNCHANGED <<constraints, schemaReady, componentTypes, relationshipTypes, now>>
    /\ UNCHANGED writerVars
    /\ UNCHANGED calls

addComponent(entityId, component) ==
    /\ \E existing \in getEntity(entityId) :
         IF existing = NullEntity
           THEN Throw("addComponent", Failure("NotFound", entityId))
           ELSE IF \E c \in DOMAIN existing.components : c.componentType = component.componentType
             THEN Throw("addComponent", Failure("AlreadyHasComponent", component.componentType))
             ELSE LET error == validateComponents(<<component>>) IN
                  IF error # NoError THEN Throw("addComponent", error)
                  ELSE /\ LET created == CreateComponents(components, NodesWithId(entityId),
                                                          <<component>>) IN
                          /\ BagCardinality(created) <= MaxComponents
                          /\ components' = created
                       /\ entities' = Touch(NodesWithId(entityId))
                       /\ UNCHANGED rels
                       /\ Return("addComponent", "entity")
    /\ UNCHANGED <<constraints, schemaReady, componentTypes, relationshipTypes, now>>
    /\ UNCHANGED writerVars
    /\ UNCHANGED calls

(* removeComponent whose MATCH leaves out the {type: $componentType} filter. *)
removeComponentAnyType(entityId, componentType) ==
    /\ \E existing \in getEntity(entityId) :
         IF existing = NullEntity
           THEN Throw("removeComponent", Failure("NotFound", entityId))
           ELSE LET matched == ComponentsOf(NodesWithId(entityId)) IN
                /\ components' = Without(components, matched)
                /\ entities' = Touch({ c.owner : c \in matched })
                /\ UNCHANGED rels
                /\ Return("removeComponent", "entity")
    /\ UNCHANGED <<constraints, schemaReady, componentTypes, relationshipTypes, now>>
    /\ UNCHANGED writerVars
    /\ UNCHANGED calls

removeComponent(entityId, componentType) ==
    /\ \E existing \in getEntity(entityId) :
         IF existing = NullEntity
           THEN Throw("removeComponent", Failure("NotFound", entityId))
           ELSE LET matched == { c \in ComponentsOf(NodesWithId(entityId)) : c.type = componentType } IN
                /\ components' = Without(components, matched)
                /\ entities' = Touch({ c.owner : c \in matched })
                /\ UNCHANGED rels
                /\ Return("removeComponent", "entity")
    /\ UNCHANGED <<constraints, schemaReady, componentTypes, relationshipTypes, now>>
    /\ UNCHANGED writerVars
    /\ UNCHANGED calls

(* updateComponent with MERGE in place of MATCH: a missing component is created. *)
updateComponentUpsert(entityId, componentType, properties) ==
    /\ LET input == << [componentType |-> componentType, properties |-> properties] >> IN
       \E existing \in getEntity(entityId) :
         IF existing = NullEntity
           THEN Throw("updateComponent", Failure("NotFound", entityId))
           ELSE LET error == validateComponents(input) IN
                IF error # NoError THEN Throw("updateComponent", error)
                ELSE LET matched == { c \in ComponentsOf(NodesWithId(entityId)) : c.type = componentType } IN
                     /\ LET created ==
                              IF matched = {}
                                THEN CreateComponents(components, NodesWithId(entityId), input)
                                ELSE Without(components, matched)
                                     (+) BagOfAll(LAMBDA c : [c EXCEPT !.properties = JsonStringify(properties)],
                                                  Restrict(components, matched)) IN
                          /\ BagCardinality(created) <= MaxComponents
                          /\ components' = created
                     /\ entities' = Touch(NodesWithId(entityId))
                     /\ UNCHANGED rels
                     /\ Return("updateComponent", "entity")
    /\ UNCHANGED <<constraints, schemaReady, componentTypes, relationshipTypes, now>>
    /\ UNCHANGED writerVars
    /\ UNCHANGED calls

updateComponent(entityId, componentType, properties) ==
    /\ LET input == << [componentType |-> componentType, properties |-> properties] >> IN
       \E existing \in getEntity(entityId) :
         IF existing = NullEntity
           THEN Throw("updateComponent", Failure("NotFound", entityId))
           ELSE LET error == validateComponents(input) IN
                IF error # NoError THEN Throw("updateComponent", error)
                ELSE LET matched == { c \in ComponentsOf(NodesWithId(entityId)) : c.type = componentType } IN
                     /\ components' =
                          Without(components, matched)
                          (+) BagOfAll(LAMBDA c : [c EXCEPT !.properties = JsonStringify(properties)],
                                       Restrict(components, matched))
                     /\ entities' = Touch({ c.owner : c \in matched })
                     /\ UNCHANGED rels
                     /\ Return("updateComponent", "entity")
    /\ UNCHANGED <<constraints, schemaReady, componentTypes, relationshipTypes, now>>
    /\ UNCHANGED writerVars
    /\ UNCHANGED calls

(* createRelationship that verifies the source only: with the target absent *)
(* the MATCH finds nothing, no edge is made and the call returns.           *)
createRelationshipSourceCheckOnly(fromId, toId, type) ==
    /\ \E fromEntity \in getEntity(fromId) :
         IF fromEntity = NullEntity
           THEN Throw("createRelationship", Failure("SourceNotFound", fromId))
           ELSE /\ LET created == rels (+) SetToBag({ [type |-> type, from |-> f, to |-> t] :
                                                      f \in NodesWithId(fromId), t \in NodesWithId(toId) }) IN
                   /\ BagCardinality(created) <= MaxRels
                   /\ rels' = created
                /\ UNCHANGED <<entities, components>>
                /\ Return("createRelationship", "void")
    /\ UNCHANGED <<constraints, schemaReady, componentTypes, relationshipTypes, now>>
    /\ UNCHANGED writerVars
    /\ UNCHANGED calls

createRelationship(fromId, toId, type) ==
    /\ \E fromEntity \in getEntity(fromId), toEntity \in getEntity(toId) :
         IF fromEntity = NullEntity
           THEN Throw("createRelationship", Failure("SourceNotFound", fromId))
           ELSE IF toEntity = NullEntity
             THEN Throw("createRelationship", Failure("TargetNotFound", toId))
             ELSE /\ LET created == rels (+) SetToBag({ [type |-> type, from |-> f, to |-> t] :
                                                        f \in NodesWithId(fromId), t \in NodesWithId(toId) }) IN
                     /\ BagCardinality(created) <= MaxRels
                     /\ rels' = created
                  /\ UNCHANGED <<entities, components>>
                  /\ Return("createRelationship", "void")
    /\ UNCHANGED <<constraints, schemaReady, componentTypes, relationshipTypes, now>>
    /\ UNCHANGED writerVars
    /\ UNCHANGED calls

(* deleteRelationship whose pattern has no direction: (from)-[r]-(to). *)
deleteRelationshipEitherDirection(fromId, toId, type) ==
    /\ LET matched == { r \in DOMAIN rels :
                          /\ r.type = type
                          /\ \/ r.from \in NodesWithId(fromId) /\ r.to \in NodesWithId(toId)
                             \/ r.from \in NodesWithId(toId) /\ r.to \in NodesWithId(fromId) } IN
       /\ rels' = Without(rels, matched)
       /\ Return("deleteRelationship", IF matched # {} THEN "true" ELSE "false")
    /\ UNCHANGED <<entities, components>>
    /\ UNCHANGED <<constraints, schemaReady, componentTypes, relationshipTypes, now>>
    /\ UNCHANGED writerVars
    /\ UNCHANGED calls

deleteRelationship(fromId, toId, type) ==
    /\ LET matched == { r \in DOMAIN rels : /\ r.type = type
                                             /\ r.from \in NodesWithId(fromId)
                                             /\ r.to \in NodesWithId(toId) } IN
       /\ rels' = Without(rels, matched)
       /\ Return("deleteRelationship", IF matched # {} THEN "true" ELSE "false")
    /\ UNCHANGED <<entities, components>>
    /\ UNCHANGED <<constraints, schemaReady, componentTypes, relationshipTypes, now>>
    /\ UNCHANGED writerVars
    /\ UNCHANGED calls

(* `type` left undefined (or empty): the query without a type filter. *)
NoFilter == ""

(* Every edge that leaves the given :Entity nodes, with the node it points  *)
(* to: relationship edges to :Entity nodes, HAS_COMPONENT edges to          *)
(* :Component nodes (which carry no id).                                    *)
EdgesFrom(nodes) ==
    BagOfAll(LAMBDA r : [type |-> r.type, label |-> "Entity", targetId |-> entities[r.to].id],
             Restrict(rels, { r \in DOMAIN rels : r.from \in nodes }))
    (+)
    BagOfAll(LAMBDA c : [type |-> "HAS_COMPONENT", label |-> "Component", targetId |-> "undefined"],
             Restrict(components, ComponentsOf(nodes)))

(* getRelationships with (target) in place of (target:Entity). *)
getRelationshipsAnyTarget(entityId, type) ==
    LET edges == EdgesFrom(NodesWithId(entityId))
        matched == { e \in DOMAIN edges : type = NoFilter \/ e.type = type } IN
    BagOfAll(LAMBDA e : [type |-> e.type, fromId |-> entityId, toId |-> e.targetId],
             Restrict(edges, matched))

(* MATCH (e:Entity {id})-[r]->(target:Entity) RETURN type(r), target.id:    *)
(* one record per matched edge.                                             *)
getRelationships(entityId, type) ==
    LET edges == EdgesFrom(NodesWithId(entityId))
        matched == { e \in DOMAIN edges :
                       e.label = "Entity" /\ (type = NoFilter \/ e.type = type) } IN
    BagOfAll(LAMBDA e : [type |-> e.type, fromId |-> entityId, toId |-> e.targetId],
             Restrict(edges, matched))

(* ORDER BY e.id compares the id strings. *)
IdRank(id) == IF id = "e1" THEN 1 ELSE IF id = "e2" THEN 2 ELSE 0

(* The rows in an order ORDER BY e.id allows: rows of equal id in any order. *)
OrderById(nodes) ==
    { rows \in [1..Cardinality(nodes) -> nodes] :
        /\ \A i, j \in DOMAIN rows : i # j => rows[i] # rows[j]
        /\ \A i, j \in DOMAIN rows : i < j => IdRank(entities[rows[i]].id) <= IdRank(entities[rows[j]].id) }

(* SKIP $offset LIMIT $limit *)
SkipLimit(rows, offset, limit) ==
    LET last == IF offset + limit < Len(rows) THEN offset + limit ELSE Len(rows) IN
    SubSeq(rows, offset + 1, last)

(* One row per :Entity node (WITH DISTINCT e), each with all its components *)
(* collected, ordered by id, then the page cut out.                          *)
getEntities(componentType, limit, offset) ==
    LET matched == IF componentType # NoFilter
                     THEN { n \in NodeIds : \E c \in ComponentsOf({n}) : c.type = componentType }
                     ELSE { n \in NodeIds : entities[n] # NoNode } IN
    { [i \in DOMAIN page |-> EntityView(page[i])] :
      page \in { SkipLimit(rows, offset, limit) : rows \in OrderById(matched) } }

(***************************************************************************)
(* Query.findPath                                                          *)
(***************************************************************************)
DefaultDepth == 5
Undefined == -1
NullPath == [entities |-> << >>, relationships |-> << >>, pathLength |-> -1]

(* The stored relationship edges one by one: rels[r] parallel copies of r. *)
EdgeInstances == { e \in (DOMAIN rels) \X (1..BagCardinality(rels)) : e[2] <= rels[e[1]] }

(* -[..]- : an edge walked from either of its ends. *)
Segments ==
    { [relationship |-> e, start |-> e[1].from, end |-> e[1].to] : e \in EdgeInstances }
    \cup { [relationship |-> e, start |-> e[1].to, end |-> e[1].from] : e \in EdgeInstances }

(* The paths of exactly n segments: consecutive, no edge used twice. *)
PathsOfLength(n) ==
    { p \in [1..n -> Segments] :
        /\ \A i \in 1..(n - 1) : p[i].end = p[i + 1].start
        /\ \A i, j \in 1..n : i # j => p[i].relationship # p[j].relationship }

(* (from)-[*1..maxDepth]-(to); no path is longer than the number of edges. *)
PathsBetween(from, to, maxDepth) ==
    LET longest == IF maxDepth < BagCardinality(rels) THEN maxDepth ELSE BagCardinality(rels) IN
    { p \in UNION { PathsOfLength(n) : n \in 1..longest } : p[1].start = from /\ p[Len(p)].end = to }

(* shortestPath(...) for one binding of (from, to): a path of least length. *)
shortestPath(from, to, maxDepth) ==
    LET paths == PathsBetween(from, to, maxDepth) IN
    { p \in paths : \A q \in paths : Len(p) <= Len(q) }

(* The loop over path.segments and the final entity. *)
PathView(path) ==
    [entities |-> [i \in 1..(Len(path) + 1) |->
                     IF i <= Len(path) THEN entities[path[i].start].id
                                       ELSE entities[path[Len(path)].end].id],
     relationships |-> [i \in 1..Len(path) |->
                          [type |-> path[i].relationship[1].type,
                           fromId |-> entities[path[i].start].id,
                           toId |-> entities[path[i].end].id]],
     pathLength |-> Len(path)]

(* const maxDepth = args.maxDepth || 5: undefined and 0 both give 5. One    *)
(* record per binding of (from, to); records[0] is any of them.             *)
findPath(fromId, toId, argsMaxDepth) ==
    LET maxDepth == IF argsMaxDepth \in {Undefined, 0} THEN DefaultDepth ELSE argsMaxDepth
        records == UNION { shortestPath(from, to, maxDepth) :
                             from \in NodesWithId(fromId), to \in NodesWithId(toId) } IN
    IF records = {} THEN {NullPath} ELSE { PathView(path) : path \in records }

(***************************************************************************)
(* Deleting types, and the ComponentTypeManager that tracks isBrickSchema. *)
(* The outcome of a manager call is kept in ret like an EntityManager's.   *)
(***************************************************************************)
(* MATCH (ct:ComponentType {name: $name}) RETURN count(ct) > 0 *)
exists(name) == BagCardinality(Restrict(componentTypes, { ct \in DOMAIN componentTypes : ct.name = name })) > 0
existsRelationshipType(name) ==
    BagCardinality(Restrict(relationshipTypes, { rt \in DOMAIN relationshipTypes : rt.name = name })) > 0

(* MATCH (n {name: $name}) DELETE n *)
DeleteNamed(nodes, name) == Without(nodes, { n \in DOMAIN nodes : n.name = name })

(* deleteComponentType without the lookup: the MATCH ... DELETE alone. *)
deleteComponentTypeNoLookup(name) ==
    /\ componentTypes' = DeleteNamed(componentTypes, name)
    /\ Return("deleteComponentType", "void")
    /\ UNCHANGED <<constraints, schemaReady, relationshipTypes, entities, components, rels, now>>
    /\ UNCHANGED writerVars
    /\ UNCHANGED calls

(* deleteComponentType detaching and deleting the instances of the type too. *)
deleteComponentTypeCascade(name) ==
    /\ IF getComponentType(name) = NoType
         THEN /\ Throw("deleteComponentType", Failure("NotFound", name))
              /\ UNCHANGED componentTypes
         ELSE /\ componentTypes' = DeleteNamed(componentTypes, name)
              /\ Return("deleteComponentType", "void")
              /\ components' = Restrict(components, { c \in DOMAIN components : c.type # name })
              /\ UNCHANGED <<entities, rels>>
    /\ UNCHANGED <<constraints, schemaReady, relationshipTypes, now>>
    /\ UNCHANGED writerVars
    /\ UNCHANGED calls

deleteComponentType(name) ==
    /\ IF getComponentType(name) = NoType
         THEN /\ Throw("deleteComponentType", Failure("NotFound", name))
              /\ UNCHANGED componentTypes
         ELSE /\ componentTypes' = DeleteNamed(componentTypes, name)
              /\ Return("deleteComponentType", "void")
              /\ UNCHANGED <<entities, components, rels>>
    /\ UNCHANGED <<constraints, schemaReady, relationshipTypes, now>>
    /\ UNCHANGED writerVars
    /\ UNCHANGED calls

(* `relType.isBrickSchema` as a condition: a node without the property is *)
(* not a Brick type.                                                       *)
IsBrickSchema(type) == "isBrickSchema" \in DOMAIN type /\ type.isBrickSchema = TRUE

deleteRelationshipType(name) ==
    /\ LET relType == getRelationshipType(name) IN
       IF relType = NoRelationshipType
         THEN /\ Throw("deleteRelationshipType", Failure("NotFound", name))
              /\ UNCHANGED relationshipTypes
         ELSE IF IsBrickSchema(relType)
           THEN /\ Throw("deleteRelationshipType", Failure("BrickSchemaType", name))
                /\ UNCHANGED relationshipTypes
           ELSE /\ relationshipTypes' = DeleteNamed(relationshipTypes, name)
                /\ Return("deleteRelationshipType", "void")
                /\ UNCHANGED <<entities, components, rels>>
    /\ UNCHANGED <<constraints, schemaReady, componentTypes, now>>
    /\ UNCHANGED writerVars
    /\ UNCHANGED calls

(* The version of ComponentTypeManager that tracks isBrickSchema. *)
registerComponentTypeBrick(data) ==
    /\ componentTypes' = Merge(componentTypes, data.name,
                               [name |-> data.name,
                                properties |-> StringifyDefinitions(data.properties),
                                isBrickSchema |-> data.isBrickSchema,
                                description |-> DescriptionOrNull(data),
                                updatedAt |-> now])
    /\ UNCHANGED <<constraints, schemaReady, relationshipTypes, entities, components, rels, now, ret>>
    /\ UNCHANGED writerVars
    /\ UNCHANGED calls

(* mapToComponentType of that version; props.isBrickSchema of a node       *)
(* without the property is undefined.                                      *)
mapToComponentTypeBrick(props) ==
    IF "isBrickSchema" \in DOMAIN props
      THEN [name |-> props.name,
            properties |-> ParseDefinitions(props.properties),
            isBrickSchema |-> props.isBrickSchema,
            description |-> props.description]
      ELSE [name |-> props.name,
            properties |-> ParseDefinitions(props.properties),
            description |-> props.description]

getComponentTypeBrick(name) ==
    LET records == { ct \in DOMAIN componentTypes : ct.name = name } IN
    IF records = {} THEN NoType ELSE mapToComponentTypeBrick(CHOOSE ct \in records : TRUE)

deleteComponentTypeBrick(name) ==
    /\ LET componentType == getComponentTypeBrick(name) IN
       IF componentType = NoType
         THEN /\ Throw("deleteComponentTypeBrick", Failure("NotFound", name))
              /\ UNCHANGED componentTypes
         ELSE IF IsBrickSchema(componentType)
           THEN /\ Throw("deleteComponentTypeBrick", Failure("BrickSchemaType", name))
                /\ UNCHANGED componentTypes
           ELSE /\ componentTypes' = DeleteNamed(componentTypes, name)
                /\ Return("deleteComponentTypeBrick", "void")
                /\ UNCHANGED <<entities, components, rels>>
    /\ UNCHANGED <<constraints, schemaReady, relationshipTypes, now>>
    /\ UNCHANGED writerVars
    /\ UNCHANGED calls

(***************************************************************************)
(* The GraphQL mutations defineComponentType and defineRelationshipType:  *)
(* the registration with isBrickSchema: false; the descriptor they then   *)
(* read back is their return value and changes nothing.                   *)
(***************************************************************************)
defineComponentType(input) ==
    registerComponentTypeBrick(
      IF "description" \in DOMAIN input
        THEN [name |-> input.name, properties |-> input.properties, isBrickSchema |-> FALSE,
              description |-> input.description]
        ELSE [name |-> input.name, properties |-> input.properties, isBrickSchema |-> FALSE])

defineRelationshipType(input) ==
    registerRelationshipType(
      IF "description" \in DOMAIN input
        THEN [name |-> input.name, fromEntity |-> input.fromEntity, toEntity |-> input.toEntity,
              properties |-> input.properties, isBrickSchema |-> FALSE,
              description |-> input.description]
        ELSE [name |-> input.name, fromEntity |-> input.fromEntity, toEntity |-> input.toEntity,
              properties |-> input.properties, isBrickSchema |-> FALSE])

(* WHERE ct.isBrickSchema = true / = false: a node without the property *)
(* satisfies neither comparison.                                          *)
BrickNodes == { ct \in DOMAIN componentTypes : "isBrickSchema" \in DOMAIN ct /\ ct.isBrickSchema = TRUE }
CustomNodes == { ct \in DOMAIN componentTypes : "isBrickSchema" \in DOMAIN ct /\ ct.isBrickSchema = FALSE }

(* The lists of both queries, as bags: ORDER BY ct.name only arranges them. *)
getBrickComponentTypes == BagOfAll(mapToComponentTypeBrick, Restrict(componentTypes, BrickNodes))
getCustomComponentTypes == BagOfAll(mapToComponentTypeBrick, Restrict(componentTypes, CustomNodes))

(* getCount of the version that tracks isBrickSchema. *)
getCountBrick ==
    [total |-> BagCardinality(componentTypes),
     brick |-> BagCardinality(Restrict(componentTypes, BrickNodes)),
     custom |-> BagCardinality(Restrict(componentTypes, CustomNodes))]

(***************************************************************************)
(* BrickSchemaLoader                                                       *)
(*                                                                         *)
(* Two entries of each catalog, with the property lists cut down to the    *)
(* names the model knows.                                                  *)
(***************************************************************************)
BRICK_COMPONENT_TYPES ==
    << [name |-> "AHU", description |-> Str("Air Handling Unit"), properties |-> << >>],
       [name |-> "Battery", description |-> Str("Battery storage system"),
        properties |-> << [name |-> "chemistry", type |-> "String", required |-> FALSE],
                          [name |-> "capacity", type |-> "Number", required |-> FALSE] >>] >>

BRICK_RELATIONSHIP_TYPES ==
    << [name |-> "feeds", description |-> Str("One equipment feeds another"),
        domain |-> "Equipment", range |-> "Equipment"],
       [name |-> "controls", description |-> Str("One equipment controls another"),
        domain |-> "Equipment", range |-> "Equipment"] >>

(* The loader's registerComponentType calls carry name, properties and    *)
(* description only: $isBrickSchema is undefined and SET gives the node no *)
(* isBrickSchema property.                                                 *)
RECURSIVE LoadComponentTypes(_, _)
LoadComponentTypes(nodes, list) ==
    IF list = << >> THEN nodes
    ELSE LoadComponentTypes(
           Merge(nodes, Head(list).name,
                 [name |-> Head(list).name,
                  properties |-> StringifyDefinitions(Head(list).properties),
                  description |-> DescriptionOrNull(Head(list)),
                  updatedAt |-> now]),
           Tail(list))

RECURSIVE LoadRelationshipTypes(_, _)
LoadRelationshipTypes(nodes, list) ==
    IF list = << >> THEN nodes
    ELSE LoadRelationshipTypes(
           Merge(nodes, Head(list).name,
                 [name |-> Head(list).name,
                  fromEntity |-> Head(list).domain,
                  toEntity |-> Head(list).range,
                  properties |-> StringifyDefinitions(<< >>),
                  description |-> DescriptionOrNull(Head(list)),
                  updatedAt |-> now]),
           Tail(list))

(* loadBrickSchema: either every catalog entry is registered, or the store *)
(* refuses the first statement for its missing parameter and the loader    *)
(* rethrows with nothing registered.                                       *)
loadBrickSchema ==
    /\ \/ /\ componentTypes' = LoadComponentTypes(componentTypes, BRICK_COMPONENT_TYPES)
          /\ relationshipTypes' = LoadRelationshipTypes(relationshipTypes, BRICK_RELATIONSHIP_TYPES)
          /\ Return("loadBrickSchema", "void")
          /\ UNCHANGED <<entities, components, rels>>
       \/ /\ Throw("loadBrickSchema", Failure("ParameterMissing", Head(BRICK_COMPONENT_TYPES).name))
          /\ UNCHANGED <<componentTypes, relationshipTypes>>
    /\ UNCHANGED <<constraints, schemaReady, now>>
    /\ UNCHANGED writerVars
    /\ UNCHANGED calls

(***************************************************************************)
(* createEntity step by step, for calls that overlap: each await is a     *)
(* point where the other call may run.  The write transaction commits as  *)
(* one step.                                                               *)
(***************************************************************************)
Callers == {"a", "b"}
NotCalled == [pc |-> "idle", id |-> "", components |-> << >>, result |-> "none"]

(* await this.validateComponents(input.components) *)
createEntityValidate(c, id, comps) ==
    /\ calls[c].pc = "idle"
    /\ calls' = [calls EXCEPT ![c] =
                   [pc |-> IF validateComponents(comps) = NoError THEN "validated" ELSE "thrown",
                    id |-> id, components |-> comps,
                    result |-> IF validateComponents(comps) = NoError THEN "none" ELSE "InvalidComponent"]]
    /\ UNCHANGED <<constraints, schemaReady, componentTypes, relationshipTypes, entities, components,
                   rels, now, ret>>
    /\ UNCHANGED writerVars

(* await this.memgraph.executeWriteTx(...): CREATE (e:Entity {id}), then   *)
(* MATCH (e:Entity {id}) CREATE (c) for each component.                    *)
createEntityWrite(c) ==
    /\ calls[c].pc = "validated"
    /\ IF "Entity.id" \in constraints /\ NodesWithId(calls[c].id) # {}
         THEN /\ calls' = [calls EXCEPT ![c].pc = "thrown", ![c].result = "ConstraintViolation"]
              /\ UNCHANGED <<entities, components>>
         ELSE /\ FreeNodes # {}
              /\ LET created == CreateComponents(components, NodesWithId(calls[c].id) \cup {NewNode},
                                                 calls[c].components) IN
                 /\ BagCardinality(created) <= MaxComponents
                 /\ components' = created
              /\ entities' = [entities EXCEPT ![NewNode] =
                                [id |-> calls[c].id, createdAt |-> now, updatedAt |-> now]]
              /\ calls' = [calls EXCEPT ![c].pc = "written"]
    /\ UNCHANGED <<constraints, schemaReady, componentTypes, relationshipTypes, rels, now, ret>>
    /\ UNCHANGED writerVars

(* const entity = await this.getEntity(input.id); return entity *)
createEntityRead(c) ==
    /\ calls[c].pc = "written"
    /\ \E entity \in getEntity(calls[c].id) :
         calls' = [calls EXCEPT ![c].pc = IF entity = NullEntity THEN "thrown" ELSE "returned",
                                ![c].result = IF entity = NullEntity THEN "FailedToCreate" ELSE "entity"]
    /\ UNCHANGED <<constraints, schemaReady, componentTypes, relationshipTypes, entities, components,
                   rels, now, ret>>
    /\ UNCHANGED writerVars

(***************************************************************************)
(* addComponent, one step per await.                                       *)
(***************************************************************************)
(* const existing = await this.getEntity(entityId), and the two checks on it *)
addComponentCheck(c, entityId, component) ==
    /\ calls[c].pc = "idle"
    /\ \E existing \in getEntity(entityId) :
         calls' = [calls EXCEPT ![c] =
           IF existing = NullEntity
             THEN [pc |-> "thrown", id |-> entityId, components |-> <<component>>, result |-> "NotFound"]
             ELSE IF \E k \in DOMAIN existing.components : k.componentType = component.componentType
               THEN [pc |-> "thrown", id |-> entityId, components |-> <<component>>,
                     result |-> "AlreadyHasComponent"]
               ELSE [pc |-> "addChecked", id |-> entityId, components |-> <<component>>,
                     result |-> "none"]]
    /\ UNCHANGED <<constraints, schemaReady, componentTypes, relationshipTypes, entities, components,
                   rels, now, ret>>
    /\ UNCHANGED writerVars

(* await this.validateComponents([component]) *)
addComponentValidate(c) ==
    /\ calls[c].pc = "addChecked"
    /\ calls' = IF validateComponents(calls[c].components) = NoError
                  THEN [calls EXCEPT ![c].pc = "addValidated"]
                  ELSE [calls EXCEPT ![c].pc = "thrown", ![c].result = "InvalidComponent"]
    /\ UNCHANGED <<constraints, schemaReady, componentTypes, relationshipTypes, entities, components,
                   rels, now, ret>>
    /\ UNCHANGED writerVars

(* the write transaction: MATCH (e:Entity {id}) CREATE (c) CREATE (e)-[]->(c) *)
(* SET e.updatedAt; with no node matched nothing is created.                 *)
addComponentWrite(c) ==
    /\ calls[c].pc = "addValidated"
    /\ LET created == CreateComponents(components, NodesWithId(calls[c].id), calls[c].components) IN
         /\ BagCardinality(created) <= MaxComponents
         /\ components' = created
    /\ entities' = Touch(NodesWithId(calls[c].id))
    /\ calls' = [calls EXCEPT ![c].pc = "addWritten"]
    /\ UNCHANGED <<constraints, schemaReady, componentTypes, relationshipTypes, rels, now, ret>>
    /\ UNCHANGED writerVars

(* const entity = await this.getEntity(entityId); throw or return it *)
addComponentRead(c) ==
    /\ calls[c].pc = "addWritten"
    /\ \E entity \in getEntity(calls[c].id) :
         calls' = [calls EXCEPT ![c].pc = IF entity = NullEntity THEN "thrown" ELSE "returned",
                                ![c].result = IF entity = NullEntity THEN "FailedToAdd" ELSE "entity"]
    /\ UNCHANGED <<constraints, schemaReady, componentTypes, relationshipTypes, entities, components,
                   rels, now, ret>>
    /\ UNCHANGED writerVars

(***************************************************************************)
(* createRelationship, one step per await.                                 *)
(***************************************************************************)
(* const fromEntity = await this.getEntity(fromId) *)
createRelationshipReadFrom(c, fromId, toId, type) ==
    /\ calls[c].pc = "idle"
    /\ \E fromEntity \in getEntity(fromId) :
         calls' = [calls EXCEPT ![c] =
                     [pc |-> "relFromRead", id |-> fromId, components |-> << >>, result |-> "none",
                      toId |-> toId, type |-> type, fromFound |-> fromEntity # NullEntity]]
    /\ UNCHANGED <<constraints, schemaReady, componentTypes, relationshipTypes, entities, components,
                   rels, now, ret>>
    /\ UNCHANGED writerVars

(* const toEntity = await this.getEntity(toId), then the two checks *)
createRelationshipReadTo(c) ==
    /\ calls[c].pc = "relFromRead"
    /\ \E toEntity \in getEntity(calls[c].toId) :
         calls' = IF ~calls[c].fromFound
                    THEN [calls EXCEPT ![c].pc = "thrown", ![c].result = "SourceNotFound"]
                    ELSE IF toEntity = NullEntity
                      THEN [calls EXCEPT ![c].pc = "thrown", ![c].result = "TargetNotFound"]
                      ELSE [calls EXCEPT ![c].pc = "relChecked"]
    /\ UNCHANGED <<constraints, schemaReady, componentTypes, relationshipTypes, entities, components,
                   rels, now, ret>>
    /\ UNCHANGED writerVars

(* the write transaction: MATCH (from) MATCH (to) CREATE (from)-[r]->(to), *)
(* one edge per matched pair and none without a pair; then the call        *)
(* returns.                                                                *)
createRelationshipWrite(c) ==
    /\ calls[c].pc = "relChecked"
    /\ LET created == rels (+) SetToBag({ [type |-> calls[c].type, from |-> f, to |-> t] :
                                           f \in NodesWithId(calls[c].id),
                                           t \in NodesWithId(calls[c].toId) }) IN
         /\ BagCardinality(created) <= MaxRels
         /\ rels' = created
    /\ calls' = [calls EXCEPT ![c].pc = "returned", ![c].result = "void"]
    /\ UNCHANGED <<constraints, schemaReady, componentTypes, relationshipTypes, entities, components,
                   now, ret>>
    /\ UNCHANGED writerVars

(***************************************************************************)
(* updateEntity, removeComponent, updateComponent and deleteEntity, one    *)
(* step per await.                                                         *)
(***************************************************************************)
(* The call's first await, getEntity(id), and its not-found check. *)
ExistenceCheck(c, id, found, missing) ==
    \E existing \in getEntity(id) :
      calls' = [calls EXCEPT ![c] = IF existing = NullEntity THEN missing ELSE found]

(* await this.validateComponents(...) of the call's components *)
ValidationStep(c, from, to) ==
    /\ calls[c].pc = from
    /\ calls' = IF validateComponents(calls[c].components) = NoError
                  THEN [calls EXCEPT ![c].pc = to]
                  ELSE [calls EXCEPT ![c].pc = "thrown", ![c].result = "InvalidComponent"]

(* const entity = await this.getEntity(id) after the write; throw or return *)
ReadBack(c, from, failure) ==
    /\ calls[c].pc = from
    /\ \E entity \in getEntity(calls[c].id) :
         calls' = [calls EXCEPT ![c].pc = IF entity = NullEntity THEN "thrown" ELSE "returned",
                                ![c].result = IF entity = NullEntity THEN failure ELSE "entity"]

updateEntityCheck(c, id, comps) ==
    /\ calls[c].pc = "idle"
    /\ ExistenceCheck(c, id,
                      [pc |-> "updChecked", id |-> id, components |-> comps, result |-> "none"],
                      [pc |-> "thrown", id |-> id, components |-> comps, result |-> "NotFound"])
    /\ UNCHANGED <<constraints, schemaReady, componentTypes, relationshipTypes, entities, components,
                   rels, now, ret>>
    /\ UNCHANGED writerVars

updateEntityValidate(c) ==
    /\ ValidationStep(c, "updChecked", "updValidated")
    /\ UNCHANGED <<constraints, schemaReady, componentTypes, relationshipTypes, entities, components,
                   rels, now, ret>>
    /\ UNCHANGED writerVars

(* the write transaction: delete the components of the matched nodes,     *)
(* create the new ones on them, set updatedAt                             *)
updateEntityWrite(c) ==
    /\ calls[c].pc = "updValidated"
    /\ LET kept == Without(components, ComponentsOf(NodesWithId(calls[c].id)))
           created == CreateComponents(kept, NodesWithId(calls[c].id), calls[c].components) IN
         /\ BagCardinality(created) <= MaxComponents
         /\ components' = created
    /\ entities' = Touch(NodesWithId(calls[c].id))
    /\ calls' = [calls EXCEPT ![c].pc = "updWritten"]
    /\ UNCHANGED <<constraints, schemaReady, componentTypes, relationshipTypes, rels, now, ret>>
    /\ UNCHANGED writerVars

updateEntityRead(c) ==
    /\ ReadBack(c, "updWritten", "FailedToUpdate")
    /\ UNCHANGED <<constraints, schemaReady, componentTypes, relationshipTypes, entities, components,
                   rels, now, ret>>
    /\ UNCHANGED writerVars

removeComponentCheck(c, entityId, componentType) ==
    /\ calls[c].pc = "idle"
    /\ ExistenceCheck(c, entityId,
                      [pc |-> "remChecked", id |-> entityId, components |-> << >>, result |-> "none",
                       type |-> componentType],
                      [pc |-> "thrown", id |-> entityId, components |-> << >>, result |-> "NotFound",
                       type |-> componentType])
    /\ UNCHANGED <<constraints, schemaReady, componentTypes, relationshipTypes, entities, components,
                   rels, now, ret>>
    /\ UNCHANGED writerVars

(* MATCH (e:Entity {id})-[r:HAS_COMPONENT]->(c:Component {type}) DELETE r, c SET e.updatedAt *)
removeComponentWrite(c) ==
    /\ calls[c].pc = "remChecked"
    /\ LET matched == { k \in ComponentsOf(NodesWithId(calls[c].id)) : k.type = calls[c].type } IN
         /\ components' = Without(components, matched)
         /\ entities' = Touch({ k.owner : k \in matched })
    /\ calls' = [calls EXCEPT ![c].pc = "remWritten"]
    /\ UNCHANGED <<constraints, schemaReady, componentTypes, relationshipTypes, rels, now, ret>>
    /\ UNCHANGED writerVars

removeComponentRead(c) ==
    /\ ReadBack(c, "remWritten", "FailedToRemove")
    /\ UNCHANGED <<constraints, schemaReady, componentTypes, relationshipTypes, entities, components,
                   rels, now, ret>>
    /\ UNCHANGED writerVars

updateComponentCheck(c, entityId, componentType, properties) ==
    /\ calls[c].pc = "idle"
    /\ LET input == << [componentType |-> componentType, properties |-> properties] >> IN
       ExistenceCheck(c, entityId,
                      [pc |-> "ucChecked", id |-> entityId, components |-> input, result |-> "none"],
                      [pc |-> "thrown", id |-> entityId, components |-> input, result |-> "NotFound"])
    /\ UNCHANGED <<constraints, schemaReady, componentTypes, relationshipTypes, entities, components,
                   rels, now, ret>>
    /\ UNCHANGED writerVars

updateComponentValidate(c) ==
    /\ ValidationStep(c, "ucChecked", "ucValidated")
    /\ UNCHANGED <<constraints, schemaReady, componentTypes, relationshipTypes, entities, components,
                   rels, now, ret>>
    /\ UNCHANGED writerVars

(* MATCH (e:Entity {id})-[:HAS_COMPONENT]->(c:Component {type}) SET c.properties, e.updatedAt *)
updateComponentWrite(c) ==
    /\ calls[c].pc = "ucValidated"
    /\ LET input == Head(calls[c].components)
           matched == { k \in ComponentsOf(NodesWithId(calls[c].id)) : k.type = input.componentType } IN
         /\ components' =
              Without(components, matched)
              (+) BagOfAll(LAMBDA k : [k EXCEPT !.properties = JsonStringify(input.properties)],
                           Restrict(components, matched))
         /\ entities' = Touch({ k.owner : k \in matched })
    /\ calls' = [calls EXCEPT ![c].pc = "ucWritten"]
    /\ UNCHANGED <<constraints, schemaReady, componentTypes, relationshipTypes, rels, now, ret>>
    /\ UNCHANGED writerVars

updateComponentRead(c) ==
    /\ ReadBack(c, "ucWritten", "FailedToUpdate")
    /\ UNCHANGED <<constraints, schemaReady, componentTypes, relationshipTypes, entities, components,
                   rels, now, ret>>
    /\ UNCHANGED writerVars

(* deleteEntity: getEntity, return false when there is none *)
deleteEntityCheck(c, id) ==
    /\ calls[c].pc = "idle"
    /\ ExistenceCheck(c, id,
                      [pc |-> "delChecked", id |-> id, components |-> << >>, result |-> "none"],
                      [pc |-> "returned", id |-> id, components |-> << >>, result |-> "false"])
    /\ UNCHANGED <<constraints, schemaReady, componentTypes, relationshipTypes, entities, components,
                   rels, now, ret>>
    /\ UNCHANGED writerVars

(* the write transaction of deleteEntity, then return true *)
deleteEntityWrite(c) ==
    /\ calls[c].pc = "delChecked"
    /\ DeleteNodes(NodesWithId(calls[c].id))
    /\ calls' = [calls EXCEPT ![c].pc = "returned", ![c].result = "true"]
    /\ UNCHANGED <<constraints, schemaReady, componentTypes, relationshipTypes, now, ret>>
    /\ UNCHANGED writerVars

(* A caller whose call has finished makes its next call. *)
nextCall(c) ==
    /\ calls[c].pc \in {"returned", "thrown"}
    /\ calls' = [calls EXCEPT ![c] = NotCalled]
    /\ UNCHANGED <<constraints, schemaReady, componentTypes, relationshipTypes, entities, components,
                   rels, now, ret>>
    /\ UNCHANGED writerVars

(* timestamp() advances between calls. *)
Tick ==
    /\ now < MaxClock
    /\ now' = now + 1
    /\ UNCHANGED <<constraints, schemaReady, componentTypes, relationshipTypes, entities,
                   components, rels, ret>>
    /\ UNCHANGED writerVars
    /\ UNCHANGED calls

(***************************************************************************)
(* InfluxWriterService.  A point is the number of the writePoint call that *)
(* accepted it.  flush() runs to its `await client.writePoints(...)` in    *)
(* one step; the backend's answer is a later step.                         *)
(***************************************************************************)
NotClosing == [state |-> "none", at |-> 0, points |-> << >>]

Pending(i) == i \in DOMAIN sent /\ sent[i].state = "pending"

(* flush(), up to the await: nothing on an empty buffer, else swap and send. *)
(* `at` is the number of points accepted when the swap happens.              *)
flush(buf, by) ==
    IF Len(buf) = 0
      THEN /\ buffer' = buf
           /\ sent' = sent
      ELSE /\ Len(sent) < MaxSends
           /\ buffer' = << >>
           /\ sent' = Append(sent, [batch |-> buf, state |-> "pending", by |-> by,
                                    at |-> written'])

(***************************************************************************)
(* The fields of a point: a value per field key, Absent where the point    *)
(* has no such field.  metrics is Object.entries(metrics), in key order.   *)
(***************************************************************************)
N0 == [kind |-> "number", val |-> "0"]
FieldKeys == {"value", "temp", "power"}
NoFields == [k \in FieldKeys |-> Absent]

(* const fields = { value: 0 } *)
DefaultFields == [NoFields EXCEPT !["value"] = N0]

(* for (const [key, value] of Object.entries(metrics)) { fields[key] = value; *)
(*   if (typeof value === 'number' && key !== 'value') fields.value = value } *)
RECURSIVE AssignMetrics(_, _)
AssignMetrics(fields, metrics) ==
    IF metrics = << >> THEN fields
    ELSE LET key == Head(metrics).key
             value == Head(metrics).value
             assigned == [fields EXCEPT ![key] = value] IN
         AssignMetrics(IF value.kind = "number" /\ key # "value"
                         THEN [assigned EXCEPT !["value"] = value]
                         ELSE assigned,
                       Tail(metrics))

(* writePoint's loop over data.fields: floatField, stringField or          *)
(* booleanField by typeof, any other value is left out of the point.       *)
PointFields(fields) ==
    [k \in FieldKeys |->
        IF fields[k].kind \in {"number", "string", "boolean"} THEN fields[k] ELSE Absent]

(* writePoint flushing only once the buffer has grown past BATCH_SIZE. *)
writePointPastBatchSize ==
    /\ written < MaxWrites
    /\ written' = written + 1
    /\ pointFields' = Append(pointFields, NoFields)
    /\ LET pushed == Append(buffer, written + 1) IN
       IF Len(pushed) > BATCH_SIZE
         THEN flush(pushed, "size")
         ELSE /\ buffer' = pushed
              /\ sent' = sent
    /\ UNCHANGED <<flushTimer, delivered, closing>>
    /\ UNCHANGED storeVars

(* writePoint(data), data.fields given: the fields loop, push, and the flush *)
(* of a full buffer.                                                        *)
writePointWith(fields) ==
    /\ written < MaxWrites
    /\ written' = written + 1
    /\ pointFields' = Append(pointFields, PointFields(fields))
    /\ LET pushed == Append(buffer, written + 1) IN
       IF Len(pushed) >= BATCH_SIZE
         THEN flush(pushed, "size")
         ELSE /\ buffer' = pushed
              /\ sent' = sent
    /\ UNCHANGED <<flushTimer, delivered, closing>>
    /\ UNCHANGED storeVars

(* a caller's writePoint, with no field to look at *)
writePoint == writePointWith(NoFields)

writeEntityMetrics(metrics) ==
    writePointWith(AssignMetrics(DefaultFields, metrics))

(* A timer callback that flushes only a full buffer. *)
periodicFlushWhenFull ==
    /\ flushTimer
    /\ UNCHANGED written
    /\ IF Len(buffer) >= BATCH_SIZE THEN flush(buffer, "timer")
                                    ELSE buffer' = buffer /\ sent' = sent
    /\ UNCHANGED <<flushTimer, delivered, closing, pointFields>>
    /\ UNCHANGED storeVars

(* the setInterval callback of startPeriodicFlush *)
periodicFlush ==
    /\ flushTimer
    /\ UNCHANGED written
    /\ flush(buffer, "timer")
    /\ UNCHANGED <<flushTimer, delivered, closing, pointFields>>
    /\ UNCHANGED storeVars

(* a caller's flush() *)
callFlush ==
    /\ UNCHANGED written
    /\ flush(buffer, "call")
    /\ UNCHANGED <<flushTimer, delivered, closing, pointFields>>
    /\ UNCHANGED storeVars

(* close(): clearInterval, then `await this.flush()`.  On an empty buffer  *)
(* flush returns at once and so does close; otherwise close returns or     *)
(* throws when its write is answered.                                      *)
close ==
    /\ closing.state # "flushing"
    /\ flushTimer' = FALSE
    /\ UNCHANGED written
    /\ flush(buffer, "close")
    /\ closing' = [state |-> IF Len(buffer) = 0 THEN "returned" ELSE "flushing",
                   at |-> written, points |-> buffer]
    /\ UNCHANGED <<delivered, pointFields>>
    /\ UNCHANGED storeVars

(* client.writePoints resolves: flush() returns. *)
writeResolved(i) ==
    /\ Pending(i)
    /\ sent' = [sent EXCEPT ![i].state = "ok"]
    /\ delivered' = Append(delivered, sent[i].batch)
    /\ closing' = IF sent[i].by = "close" THEN [closing EXCEPT !.state = "returned"] ELSE closing
    /\ UNCHANGED <<buffer, flushTimer, written, pointFields>>
    /\ UNCHANGED storeVars

(* A catch block that logs and rethrows without re-adding the points. *)
writeRejectedDiscards(i) ==
    /\ Pending(i)
    /\ sent' = [sent EXCEPT ![i].state = "failed"]
    /\ buffer' = buffer
    /\ closing' = IF sent[i].by = "close" THEN [closing EXCEPT !.state = "failed"] ELSE closing
    /\ UNCHANGED <<flushTimer, delivered, written, pointFields>>
    /\ UNCHANGED storeVars

(* client.writePoints rejects: the catch block re-adds the points and rethrows. *)
writeRejected(i) ==
    /\ Pending(i)
    /\ sent' = [sent EXCEPT ![i].state = "failed"]
    /\ buffer' = sent[i].batch \o buffer
    /\ closing' = IF sent[i].by = "close" THEN [closing EXCEPT !.state = "failed"] ELSE closing
    /\ UNCHANGED <<flushTimer, delivered, written, pointFields>>
    /\ UNCHANGED storeVars

(***************************************************************************)
(* Inputs of the calls.                                                    *)
(***************************************************************************)
BatteryOk == [componentType |-> "Battery", properties |-> Props("capacity", N100)]
(* capacity is missing and chemistry is a number: two errors in one component *)
BatteryBad == [componentType |-> "Battery", properties |-> Props("chemistry", N100)]
AhuDated == [componentType |-> "AHU", properties |-> Props("installed", DDay)]

ComponentInputs == {BatteryOk, BatteryBad, AhuDated}
PropertyInputs == { NoProps, Props("capacity", N200), Props("installed", DDay) }

(* Descriptors passed to the registries: with and without a description, *)
(* and a second property list for each name.                              *)
ComponentTypeInputs ==
    Catalog \cup
    { [name |-> n, properties |-> p, description |-> d] :
        n \in TypeNames, p \in {BatteryType.properties, AHUType.properties},
        d \in {Str(""), Str("cells")} }

RelationshipTypeInputs ==
    { [name |-> n, fromEntity |-> "Any", toEntity |-> t, properties |-> << >>, isBrickSchema |-> b] :
        n \in RelTypes, t \in {"Any", "AHU"}, b \in BOOLEAN }
    \cup
    { [name |-> n, fromEntity |-> "Any", toEntity |-> t, properties |-> << >>, isBrickSchema |-> b,
       description |-> d] :
        n \in RelTypes, t \in {"Any", "AHU"}, b \in BOOLEAN, d \in {Str(""), Str("moves air")} }

(* Descriptors for the manager that tracks isBrickSchema, and the         *)
(* relationship descriptors without a description.                        *)
BrickComponentTypeInputs ==
    { [name |-> d.name, properties |-> d.properties, isBrickSchema |-> b] : d \in Catalog, b \in BOOLEAN }
BareRelationshipTypeInputs ==
    { d \in RelationshipTypeInputs : "description" \notin DOMAIN d /\ d.toEntity = "Any" }

(* Descriptors for the manager that tracks isBrickSchema: both catalog   *)
(* property lists for each name, with and without a description.          *)
TrackedTypeInputs ==
    BrickComponentTypeInputs \cup
    { [name |-> n, properties |-> p, isBrickSchema |-> b, description |-> Str("cells")] :
        n \in TypeNames, p \in {BatteryType.properties, AHUType.properties}, b \in BOOLEAN }

(* The inputs of the define mutations, and the Brick types as a loader     *)
(* that passes isBrickSchema: true registers them.                          *)
DefineComponentInputs ==
    Catalog \cup { [name |-> d.name, properties |-> d.properties, description |-> Str("cells")] : d \in Catalog }
DefineRelationshipInputs ==
    { [name |-> n, fromEntity |-> "Any", toEntity |-> "Any", properties |-> << >>] : n \in RelTypes }
BrickLoadedComponentTypes == { d \in BrickComponentTypeInputs : d.isBrickSchema }
BrickLoadedRelationshipTypes == { d \in BareRelationshipTypeInputs : d.isBrickSchema }

(* Descriptors declaring one property of each kind, a kind the validator   *)
(* does not know included.                                                  *)
Kinds == {"String", "Number", "Boolean", "Date", "JSON", "Duration"}
KindTypeInputs ==
    { [name |-> n, properties |-> << [name |-> p, type |-> k, required |-> r] >>] :
        n \in TypeNames, p \in PropertyNames, k \in Kinds, r \in BOOLEAN }

(* A later registerComponentType call for Battery that makes chemistry      *)
(* required and drops capacity: BatteryOk no longer satisfies it.            *)
BatteryRevised ==
    [name |-> "Battery",
     properties |-> << [name |-> "chemistry", type |-> "String", required |-> TRUE] >>]
TypeRevisions == Catalog \cup {BatteryRevised}

(* The component lists written while the types change. *)
FrameLists == { << >>, <<BatteryOk>>, <<BatteryOk, AhuDated>> }

(* The component lists handed to createEntity and updateEntity: empty, one   *)
(* component, two components (the same one twice included).                  *)
ComponentLists ==
    { << >> } \cup { <<a>> : a \in ComponentInputs }
              \cup { <<a, b>> : a \in ComponentInputs, b \in ComponentInputs }

(***************************************************************************)
(* Specifications                                                          *)
(***************************************************************************)
(* The store as main() leaves it: connected, initMemgraphSchema() run on an *)
(* empty database, nothing registered yet.                                   *)
Init ==
    /\ constraints = runCypherFile(ConstraintsFile)
    /\ schemaReady = TRUE
    /\ componentTypes = EmptyBag
    /\ relationshipTypes = EmptyBag
    /\ entities = [n \in NodeIds |-> NoNode]
    /\ components = EmptyBag
    /\ rels = EmptyBag
    /\ now = 0
    /\ ret = [op |-> "", status |-> "ok", error |-> NoError, value |-> "none"]
    /\ buffer = << >>
    /\ flushTimer = TRUE
    /\ sent = << >>
    /\ delivered = << >>
    /\ written = 0
    /\ closing = NotClosing
    /\ pointFields = << >>
    /\ calls = [c \in Callers |-> NotCalled]

Next ==
    \/ \E data \in Catalog : registerComponentType(data)
    \/ \E id \in EntityIds, comps \in ComponentLists : createEntity(id, comps)
    \/ \E id \in EntityIds, comps \in ComponentLists : updateEntity(id, comps)
    \/ \E id \in EntityIds : deleteEntity(id)
    \/ \E id \in EntityIds, c \in ComponentInputs : addComponent(id, c)
    \/ \E id \in EntityIds, t \in TypeNames : removeComponent(id, t)
    \/ \E id \in EntityIds, t \in TypeNames, p \in PropertyInputs : updateComponent(id, t, p)


Spec == Init /\ [][Next]_vars

NextGraph ==
    \/ \E data \in {AHUType} : registerComponentType(data)
    \/ \E id \in EntityIds, comps \in {<< >>, <<AhuDated>>} : createEntity(id, comps)
    \/ \E id \in EntityIds : deleteEntity(id)
    \/ \E f \in EntityIds, t \in EntityIds, r \in RelTypes : createRelationship(f, t, r)
    \/ \E f \in EntityIds, t \in EntityIds, r \in RelTypes : deleteRelationship(f, t, r)

SpecGraph == Init /\ [][NextGraph]_vars

(* Creation and removal only: the stores createEntity can meet. *)
NextCreate ==
    \/ \E data \in Catalog : registerComponentType(data)
    \/ \E id \in EntityIds, comps \in ComponentLists : createEntity(id, comps)
    \/ \E id \in EntityIds : deleteEntity(id)
    \/ \E id \in EntityIds, t \in TypeNames : removeComponent(id, t)

SpecCreate == Init /\ [][NextCreate]_vars

(* The two type registries alone. *)
NextRegistry ==
    \/ \E data \in ComponentTypeInputs : registerComponentType(data)
    \/ \E data \in RelationshipTypeInputs : registerRelationshipType(data)

SpecRegistry == Init /\ [][NextRegistry]_vars

(* Registration and deletion in both registries, through either version  *)
(* of ComponentTypeManager, over one store.                                *)
NextTypes ==
    \/ \E data \in Catalog : registerComponentType(data)
    \/ \E data \in BrickComponentTypeInputs : registerComponentTypeBrick(data)
    \/ \E data \in BareRelationshipTypeInputs : registerRelationshipType(data)
    \/ \E name \in TypeNames : deleteComponentType(name)
    \/ \E name \in TypeNames : deleteComponentTypeBrick(name)
    \/ \E name \in RelTypes : deleteRelationshipType(name)

SpecTypes == Init /\ [][NextTypes]_vars

(* The registrations that decide what validateComponent checks. *)
NextValidate ==
    \E data \in Catalog \cup KindTypeInputs : registerComponentType(data)

SpecValidate == Init /\ [][NextValidate]_vars

(* Two createEntity calls whose steps interleave. *)
NextOverlap ==
    \/ \E data \in {BatteryType} : registerComponentType(data)
    \/ \E c \in Callers, id \in EntityIds, comps \in {<< >>, <<BatteryOk>>, <<BatteryBad>>} :
         createEntityValidate(c, id, comps)
    \/ \E c \in Callers : createEntityWrite(c)
    \/ \E c \in Callers : createEntityRead(c)

SpecOverlap == Init /\ [][NextOverlap]_vars

(* Entities and relationships written while the component types they use   *)
(* are registered, registered again with another property list, and        *)
(* deleted.                                                                 *)
NextFrame ==
    \/ \E data \in TypeRevisions : registerComponentType(data)
    \/ \E name \in TypeNames : deleteComponentType(name)
    \/ \E id \in EntityIds, comps \in FrameLists : createEntity(id, comps)
    \/ \E toId \in EntityIds : createRelationship("e1", toId, "feeds")

SpecFrame == Init /\ [][NextFrame]_vars

(* main() from an empty database: initMemgraphSchema() first, and the API    *)
(* serves createEntity calls once it has completed.                          *)
InitBoot ==
    /\ constraints = {}
    /\ schemaReady = FALSE
    /\ componentTypes = EmptyBag
    /\ relationshipTypes = EmptyBag
    /\ entities = [n \in NodeIds |-> NoNode]
    /\ components = EmptyBag
    /\ rels = EmptyBag
    /\ now = 0
    /\ ret = [op |-> "", status |-> "ok", error |-> NoError, value |-> "none"]
    /\ buffer = << >>
    /\ flushTimer = TRUE
    /\ sent = << >>
    /\ delivered = << >>
    /\ written = 0
    /\ closing = NotClosing
    /\ pointFields = << >>
    /\ calls = [c \in Callers |-> NotCalled]

NextBoot ==
    \/ initializeSchema
    \/ schemaReady /\ NextOverlap

SpecBoot == InitBoot /\ [][NextBoot]_vars

(* The registry that tracks isBrickSchema: the startup load of the Brick   *)
(* catalog, registrations and deletions.                                   *)
NextBrick ==
    \/ loadBrickSchema
    \/ \E data \in TrackedTypeInputs : registerComponentTypeBrick(data)
    \/ \E name \in TypeNames : deleteComponentTypeBrick(name)

SpecBrick == Init /\ [][NextBrick]_vars

(* Two addComponent calls whose steps interleave, on entities created      *)
(* without components.                                                     *)
NextAddOverlap ==
    \/ \E data \in {BatteryType} : registerComponentType(data)
    \/ \E id \in EntityIds : createEntity(id, << >>)
    \/ \E c \in Callers, id \in EntityIds, component \in {BatteryOk, BatteryBad} :
         addComponentCheck(c, id, component)
    \/ \E c \in Callers : addComponentValidate(c)
    \/ \E c \in Callers : addComponentWrite(c)
    \/ \E c \in Callers : addComponentRead(c)

SpecAddOverlap == Init /\ [][NextAddOverlap]_vars

(* createRelationship calls in steps while entities are created and deleted. *)
NextRelRace ==
    \/ \E id \in EntityIds : createEntity(id, << >>)
    \/ \E id \in EntityIds : deleteEntity(id)
    \/ \E c \in Callers, fromId \in EntityIds, toId \in EntityIds :
         createRelationshipReadFrom(c, fromId, toId, "feeds")
    \/ \E c \in Callers : createRelationshipReadTo(c)
    \/ \E c \in Callers : createRelationshipWrite(c)

SpecRelRace == Init /\ [][NextRelRace]_vars

(* Every EntityManager operation that writes components, in steps, for two *)
(* callers who call again and again.                                       *)
NextOwnership ==
    \/ \E data \in {BatteryType} : registerComponentType(data)
    \/ \E c \in Callers, id \in EntityIds : createEntityValidate(c, id, <<BatteryOk>>)
    \/ \E c \in Callers : createEntityWrite(c)
    \/ \E c \in Callers : createEntityRead(c)
    \/ \E c \in Callers, id \in EntityIds : updateEntityCheck(c, id, <<BatteryOk>>)
    \/ \E c \in Callers : updateEntityValidate(c)
    \/ \E c \in Callers : updateEntityWrite(c)
    \/ \E c \in Callers : updateEntityRead(c)
    \/ \E c \in Callers, id \in EntityIds : addComponentCheck(c, id, BatteryOk)
    \/ \E c \in Callers : addComponentValidate(c)
    \/ \E c \in Callers : addComponentWrite(c)
    \/ \E c \in Callers : addComponentRead(c)
    \/ \E c \in Callers, id \in EntityIds : removeComponentCheck(c, id, "Battery")
    \/ \E c \in Callers : removeComponentWrite(c)
    \/ \E c \in Callers : removeComponentRead(c)
    \/ \E c \in Callers, id \in EntityIds : updateComponentCheck(c, id, "Battery", Props("capacity", N200))
    \/ \E c \in Callers : updateComponentValidate(c)
    \/ \E c \in Callers : updateComponentWrite(c)
    \/ \E c \in Callers : updateComponentRead(c)
    \/ \E c \in Callers, id \in EntityIds : deleteEntityCheck(c, id)
    \/ \E c \in Callers : deleteEntityWrite(c)
    \/ \E c \in Callers : nextCall(c)

SpecOwnership == Init /\ [][NextOwnership]_vars

(* updateComponent on entities that own some, or none, of the registered   *)
(* types, at a later time than their creation.                             *)
NextUpdateComponent ==
    \/ \E data \in Catalog : registerComponentType(data)
    \/ \E comps \in {<< >>, <<BatteryOk>>} : createEntity("e1", comps)
    \/ Tick
    \/ \E id \in EntityIds, t \in TypeNames : updateComponent(id, t, Props("capacity", N200))

SpecUpdateComponent == Init /\ [][NextUpdateComponent]_vars

(* The store once the Brick component and relationship types have been    *)
(* registered with isBrickSchema true.                                     *)
InitProtect ==
    /\ constraints = runCypherFile(ConstraintsFile)
    /\ schemaReady = TRUE
    /\ componentTypes = SetToBag({ [name |-> d.name,
                                    properties |-> StringifyDefinitions(d.properties),
                                    isBrickSchema |-> TRUE,
                                    description |-> DescriptionOrNull(d),
                                    updatedAt |-> 0] : d \in BrickLoadedComponentTypes })
    /\ relationshipTypes = SetToBag({ [name |-> d.name,
                                       fromEntity |-> d.fromEntity,
                                       toEntity |-> d.toEntity,
                                       properties |-> StringifyDefinitions(d.properties),
                                       isBrickSchema |-> TRUE,
                                       description |-> DescriptionOrNull(d),
                                       updatedAt |-> 0] : d \in BrickLoadedRelationshipTypes })
    /\ entities = [n \in NodeIds |-> NoNode]
    /\ components = EmptyBag
    /\ rels = EmptyBag
    /\ now = 0
    /\ ret = [op |-> "", status |-> "ok", error |-> NoError, value |-> "none"]
    /\ buffer = << >>
    /\ flushTimer = TRUE
    /\ sent = << >>
    /\ delivered = << >>
    /\ written = 0
    /\ closing = NotClosing
    /\ pointFields = << >>
    /\ calls = [c \in Callers |-> NotCalled]

(* The registries that track isBrickSchema: Brick types registered with    *)
(* isBrickSchema true, the define mutations and the deletions.             *)
NextProtect ==
    \/ \E data \in BrickLoadedComponentTypes : registerComponentTypeBrick(data)
    \/ \E data \in BrickLoadedRelationshipTypes : registerRelationshipType(data)
    \/ \E input \in DefineComponentInputs : defineComponentType(input)
    \/ \E input \in DefineRelationshipInputs : defineRelationshipType(input)
    \/ \E name \in TypeNames : deleteComponentTypeBrick(name)
    \/ \E name \in RelTypes : deleteRelationshipType(name)

SpecProtect == InitProtect /\ [][NextProtect]_vars

NextWriter ==
    \/ writePoint
    \/ periodicFlush
    \/ callFlush
    \/ close
    \/ \E i \in 1..MaxSends : writeResolved(i)
    \/ \E i \in 1..MaxSends : writeRejected(i)

SpecWriter == Init /\ [][NextWriter]_vars

(* The writer fed by writeEntityMetrics. *)
Metric(key, value) == [key |-> key, value |-> value]
MetricsInputs ==
    { << >>,
      <<Metric("temp", N100)>>,
      <<Metric("temp", SLiIon)>>,
      <<Metric("temp", BTrue)>>,
      <<Metric("temp", N100), Metric("power", N200)>>,
      <<Metric("power", N200), Metric("temp", N100)>>,
      <<Metric("temp", SLiIon), Metric("power", N200)>>,
      <<Metric("temp", N100), Metric("power", BTrue)>>,
      <<Metric("value", N100)>>,
      <<Metric("value", N100), Metric("temp", N200)>> }

NextMetrics ==
    \/ \E metrics \in MetricsInputs : writeEntityMetrics(metrics)
    \/ periodicFlush
    \/ \E i \in 1..MaxSends : writeResolved(i)

SpecMetrics == Init /\ [][NextMetrics]_vars

(* The open writer with a timer that keeps firing and a backend that     *)
(* answers every write and in the end accepts: a write is rejected, and a *)
(* point accepted, only while enough backend calls are left to send what  *)
(* the buffer then holds.                                                  *)
SendsLeft == MaxSends - Len(sent)

NextWriterLive ==
    \/ SendsLeft > Len(buffer) /\ writePoint
    \/ periodicFlush
    \/ callFlush
    \/ \E i \in 1..MaxSends : writeResolved(i)
    \/ \E i \in 1..MaxSends :
         Pending(i) /\ SendsLeft >= Len(buffer) + Len(sent[i].batch) /\ writeRejected(i)

SpecWriterLive ==
    /\ Init
    /\ [][NextWriterLive]_vars
    /\ WF_vars(periodicFlush)
    /\ \A i \in 1..MaxSends : WF_vars(writeResolved(i))

(***************************************************************************)
(* Properties                                                              *)
(***************************************************************************)
store == <<entities, components, rels>>

(* How many components of one type a node owns. *)
Owned(n, type) ==
    BagCardinality(Restrict(components, { c \in DOMAIN components : c.owner = n /\ c.type = type }))

Invalid(component) == ~validateComponent(component.componentType, component.properties).valid
AnyInvalid(comps) == \E i \in DOMAIN comps : Invalid(comps[i])

(* C1: in every reachable state each entity owns at most one component per *)
(* componentType name.                                                     *)
C1_OneComponentPerType ==
    \A n \in NodeIds, t \in TypeNames : Owned(n, t) <= 1

(* C2: createEntity with an id that is already present fails and leaves the *)
(* existing entity (components, relationships, timestamps) as it was.       *)
C2_DuplicateIdRejected ==
    [][\A id \in EntityIds, comps \in ComponentLists :
         (ret'.op = "createEntity" /\ NodesWithId(id) # {} /\ createEntity(id, comps))
           => (ret'.status = "error" /\ UNCHANGED store)]_vars

(* C3: createEntity with a list holding an invalid component, at any       *)
(* position, fails and leaves the store unchanged; for a new id getEntity  *)
(* returns null afterwards.                                                *)
C3_CreateAllOrNothing ==
    [][\A id \in EntityIds, comps \in ComponentLists :
         (ret'.op = "createEntity" /\ AnyInvalid(comps) /\ createEntity(id, comps))
           => /\ ret'.status = "error"
              /\ UNCHANGED store
              /\ (NodesWithId(id) = {} => getEntity(id)' = {NullEntity})]_vars

(* A createEntity rejected for its AHU component, of a type never          *)
(* registered, while Battery is registered: nothing is stored.             *)
C3_Witness ==
    /\ ret.op = "createEntity"
    /\ ret.status = "error"
    /\ ret.error.kind = "InvalidComponent"
    /\ ret.error.subject = "AHU"
    /\ getComponentType("Battery") # NoType
    /\ getComponentType("AHU") = NoType
    /\ entities = [n \in NodeIds |-> NoNode]
    /\ components = EmptyBag

(* Every HAS_COMPONENT edge and every relationship edge joins existing nodes. *)
NoDanglingEdges ==
    /\ \A c \in DOMAIN components : entities[c.owner] # NoNode
    /\ \A r \in DOMAIN rels : entities[r.from] # NoNode /\ entities[r.to] # NoNode
    /\ \A id \in EntityIds : \A r \in DOMAIN getRelationships(id, NoFilter) :
          r.toId \in EntityIds /\ NodesWithId(r.toId) # {}

(* C4: after deleteEntity(id) returns true no node of that id, none of its  *)
(* components and no edge from or to it remains; and in every state every   *)
(* edge has both endpoints among the existing entities, so getRelationships *)
(* lists no deleted entity.                                                 *)
C4_DeleteLeavesNoDanglingEdges ==
    /\ []NoDanglingEdges
    /\ [][\A id \in EntityIds :
           (deleteEntity(id) /\ ret'.value = "true")
             => /\ NodesWithId(id)' = {}
                /\ \A c \in DOMAIN components' : c.owner \notin NodesWithId(id)
                /\ \A r \in DOMAIN rels' : r.from \notin NodesWithId(id)
                                            /\ r.to \notin NodesWithId(id)]_vars

(* deleteEntity has just returned true, and another entity and an edge      *)
(* between surviving nodes are still there.                                 *)
C4_Witness ==
    /\ ret.op = "deleteEntity"
    /\ ret.value = "true"
    /\ \E n \in NodeIds : entities[n] # NoNode
    /\ rels # EmptyBag

Range(seq) == { seq[i] : i \in DOMAIN seq }

(* The input list as a bag of components, order ignored. *)
SeqToBag(comps) ==
    [c \in Range(comps) |-> Cardinality({ i \in DOMAIN comps : comps[i] = c })]

(* C5: createEntity with a new id and a list of components that all         *)
(* validate succeeds, and getEntity(id) then returns that id with exactly   *)
(* the input components (componentType and properties, order ignored).      *)
C5_RoundTrip ==
    [][\A id \in EntityIds, comps \in ComponentLists :
         (ret'.op = "createEntity" /\ NodesWithId(id) = {} /\ ~AnyInvalid(comps)
            /\ createEntity(id, comps))
           => /\ ret'.status = "ok"
              /\ \A e \in getEntity(id)' : e.id = id /\ e.components = SeqToBag(comps)]_vars

ErrorsOf(component) == validateComponent(component.componentType, component.properties).errors

(* C9: when two or more components of the list given to createEntity or    *)
(* updateEntity are invalid, the reported failure holds the validation      *)
(* errors of every invalid component.                                       *)
C9_AllErrorsReported ==
    [][\A id \in EntityIds, comps \in ComponentLists :
         (/\ ret'.status = "error"
          /\ Cardinality({ i \in DOMAIN comps : Invalid(comps[i]) }) >= 2
          /\ \/ createEntity(id, comps)
             \/ NodesWithId(id) # {} /\ updateEntity(id, comps))
           => \A i \in DOMAIN comps : Range(ErrorsOf(comps[i])) \subseteq Range(ret'.error.errors)]_vars

(* C10: addComponent on an entity that already owns a component of the     *)
(* given type fails and leaves the stored components as they were.          *)
C10_AddExistingTypeRejected ==
    [][\A id \in EntityIds, c \in ComponentInputs :
         (/\ ret'.op = "addComponent"
          /\ \E n \in NodesWithId(id) : Owned(n, c.componentType) >= 1
          /\ addComponent(id, c))
           => (ret'.status = "error" /\ UNCHANGED store)]_vars

(* C6: when a flush's backend write fails, the buffer then holds the failed *)
(* batch, each point once, followed by the points written since that flush  *)
(* began; a following flush sends exactly the buffer and empties it.        *)
C6_FailedFlushRebuffers ==
    [][/\ \A i \in 1..MaxSends :
            writeRejected(i)
              => buffer' = sent[i].batch \o SelectSeq(buffer', LAMBDA p : p > sent[i].at)
       /\ (callFlush /\ buffer # << >>)
            => (sent'[Len(sent')].batch = buffer /\ buffer' = << >>)]_vars

(* Every backend write so far was started by writePoint and none failed. *)
OnlySizeFlushes == \A i \in DOMAIN sent : sent[i].by = "size" /\ sent[i].state # "failed"

(* C7: after exactly BATCH_SIZE writePoint calls, with no other flush and   *)
(* no failure, one backend write holds exactly those points and the buffer  *)
(* is empty; fewer than BATCH_SIZE writes start no size-based flush.        *)
C7_BatchSizeFlush ==
    /\ (written = BATCH_SIZE /\ OnlySizeFlushes)
         => /\ Len(sent) = 1
            /\ sent[1].batch = [k \in 1..BATCH_SIZE |-> k]
            /\ buffer = << >>
            /\ delivered \in { << >>, << sent[1].batch >> }
    /\ written < BATCH_SIZE => \A i \in DOMAIN sent : sent[i].by # "size"

(* The BATCH_SIZE-th write has flushed, and the backend has accepted the batch. *)
C7_Witness ==
    /\ written = BATCH_SIZE
    /\ Len(sent) = 1
    /\ sent[1].by = "size"
    /\ sent[1].state = "ok"
    /\ Len(sent[1].batch) = BATCH_SIZE
    /\ delivered = << sent[1].batch >>
    /\ buffer = << >>

(* C8: at most one flush has a backend write in flight at any time. *)
C8_FlushesMutuallyExclusive ==
    Cardinality({ i \in DOMAIN sent : Pending(i) }) <= 1

(* The components of a view that are not of the given type. *)
OtherTypes(view, type) ==
    Restrict(view.components, { c \in DOMAIN view.components : c.componentType # type })

(* C11: after a successful updateComponent(entityId, T, P) on an entity     *)
(* owning a T component, the entity shows its T component with property bag *)
(* exactly P, its other components as before, and as many components.       *)
C11_UpdateComponentOverwrites ==
    [][\A id \in EntityIds, t \in TypeNames, p \in PropertyInputs :
         (/\ ret'.op = "updateComponent"
          /\ ret'.status = "ok"
          /\ \E n \in NodesWithId(id) : Owned(n, t) >= 1
          /\ updateComponent(id, t, p))
           => \A n \in NodesWithId(id) :
                /\ \A c \in DOMAIN EntityView(n)'.components :
                      c.componentType = t => c.properties = p
                /\ OtherTypes(EntityView(n)', t) = OtherTypes(EntityView(n), t)
                /\ BagCardinality(EntityView(n)'.components)
                      = BagCardinality(EntityView(n).components)]_vars

(* C12: removeComponent(entityId, T) on an existing entity succeeds, leaves *)
(* it without a T component and with its other components as they were,    *)
(* changes nothing when it owned no T component, and touches no other       *)
(* entity's components.                                                     *)
C12_RemoveComponentFrame ==
    [][\A id \in EntityIds, t \in TypeNames :
         (ret'.op = "removeComponent" /\ NodesWithId(id) # {} /\ removeComponent(id, t))
           => /\ ret'.status = "ok"
              /\ \A n \in NodesWithId(id) :
                    /\ \A c \in DOMAIN EntityView(n)'.components : c.componentType # t
                    /\ OtherTypes(EntityView(n)', t) = OtherTypes(EntityView(n), t)
                    /\ Owned(n, t) = 0 => EntityView(n)'.components = EntityView(n).components
              /\ \A n \in NodeIds \ NodesWithId(id) :
                    EntityView(n)'.components = EntityView(n).components
              /\ UNCHANGED rels]_vars

(* removeComponent has succeeded on a store where an entity is left with   *)
(* its AHU component and no Battery component.                              *)
C12_Witness ==
    /\ ret.op = "removeComponent"
    /\ ret.status = "ok"
    /\ \E n \in NodeIds : /\ entities[n] # NoNode
                           /\ Owned(n, "Battery") = 0
                           /\ Owned(n, "AHU") >= 1

(* C13: updateEntity(id, C) fails with NotFound and changes nothing when   *)
(* the entity is missing, fails and changes nothing when a component of C  *)
(* is invalid, and otherwise leaves the entity with exactly the components *)
(* of C.                                                                    *)
C13_UpdateEntityReplaces ==
    [][\A id \in EntityIds, comps \in ComponentLists :
         (ret'.op = "updateEntity" /\ updateEntity(id, comps))
           => IF NodesWithId(id) = {}
                THEN /\ ret'.status = "error"
                     /\ ret'.error.kind = "NotFound"
                     /\ UNCHANGED store
                ELSE IF AnyInvalid(comps)
                  THEN ret'.status = "error" /\ UNCHANGED store
                  ELSE /\ ret'.status = "ok"
                       /\ \A n \in NodesWithId(id) :
                             EntityView(n)'.components = SeqToBag(comps)]_vars

(* C14: deleteEntity(id) returns false and changes nothing when no entity  *)
(* has that id; otherwise it returns true and getEntity(id) is null         *)
(* afterwards, so that a second deleteEntity(id) returns false.             *)
C14_DeleteEntityResult ==
    [][\A id \in EntityIds :
         (ret'.op = "deleteEntity" /\ deleteEntity(id))
           => IF getEntity(id) = {NullEntity}
                THEN ret'.value = "false" /\ UNCHANGED store
                ELSE ret'.value = "true" /\ getEntity(id)' = {NullEntity}]_vars

(* deleteEntity has returned false for a missing id while another entity   *)
(* is stored.                                                               *)
C14_Witness ==
    /\ ret.op = "deleteEntity"
    /\ ret.value = "false"
    /\ \E n \in NodeIds : entities[n] # NoNode

(* C15: createRelationship with a missing endpoint fails, naming the       *)
(* source when the source is missing and the target otherwise, and leaves  *)
(* the store unchanged.                                                     *)
C15_CreateRelationshipNeedsEndpoints ==
    [][\A f \in EntityIds, t \in EntityIds, r \in RelTypes :
         (/\ ret'.op = "createRelationship"
          /\ getEntity(f) = {NullEntity} \/ getEntity(t) = {NullEntity}
          /\ createRelationship(f, t, r))
           => /\ ret'.status = "error"
              /\ ret'.error = IF getEntity(f) = {NullEntity}
                                THEN Failure("SourceNotFound", f)
                                ELSE Failure("TargetNotFound", t)
              /\ UNCHANGED store]_vars

(* createRelationship has failed for its target while an entity (the       *)
(* source) is stored.                                                       *)
C15_Witness ==
    /\ ret.op = "createRelationship"
    /\ ret.status = "error"
    /\ ret.error.kind = "TargetNotFound"
    /\ \E n \in NodeIds : entities[n] # NoNode /\ entities[n].id # ret.error.subject

(* An edge of the given type from an entity of id f to an entity of id t. *)
IsEdge(e, f, t, type) ==
    e.type = type /\ entities[e.from].id = f /\ entities[e.to].id = t

(* C16: deleteRelationship(fromId, toId, type) removes every edge of that   *)
(* type from fromId to toId, however many there are, keeps every other edge *)
(* as it was, and returns true exactly when it removed an edge.             *)
C16_DeleteRelationshipExact ==
    [][\A f \in EntityIds, t \in EntityIds, r \in RelTypes :
         (ret'.op = "deleteRelationship" /\ deleteRelationship(f, t, r))
           => /\ \A e \in DOMAIN rels :
                    IF IsEdge(e, f, t, r)
                      THEN e \notin DOMAIN rels'
                      ELSE e \in DOMAIN rels' /\ rels'[e] = rels[e]
              /\ DOMAIN rels' \subseteq DOMAIN rels
              /\ ret'.value = (IF \E e \in DOMAIN rels : IsEdge(e, f, t, r)
                                 THEN "true" ELSE "false")
              /\ UNCHANGED <<entities, components>>]_vars

(* deleteRelationship has removed an edge and another edge is still stored. *)
C16_Witness ==
    /\ ret.op = "deleteRelationship"
    /\ ret.value = "true"
    /\ rels # EmptyBag

(* How many stored edges of the given type lead from id f to id t. *)
EdgeCount(f, t, type) ==
    BagCardinality(Restrict(rels, { e \in DOMAIN rels : IsEdge(e, f, t, type) }))

(* C17: getRelationships(entityId, type?) returns one result per stored     *)
(* relationship edge whose source is entityId, with fromId = entityId, only *)
(* of the given type when one is passed, and nothing else: no incoming edge *)
(* and no HAS_COMPONENT edge.                                               *)
C17_GetRelationshipsOutgoingOnly ==
    \A id \in EntityIds, type \in RelTypes \cup {NoFilter} :
      LET result == getRelationships(id, type) IN
      /\ \A x \in DOMAIN result :
            x.fromId = id /\ x.type \in RelTypes /\ x.toId \in EntityIds
      /\ \A r \in RelTypes, t \in EntityIds :
            CopiesIn([type |-> r, fromId |-> id, toId |-> t], result)
              = IF type \in {NoFilter, r} THEN EdgeCount(id, t, r) ELSE 0

(* An entity that owns a component and has an outgoing and an incoming     *)
(* relationship edge with another entity.                                   *)
C17_Witness ==
    \E n \in NodeIds, m \in NodeIds :
      /\ entities[n] # NoNode /\ entities[m] # NoNode /\ entities[n].id # entities[m].id
      /\ ComponentsOf({n}) # {}
      /\ \E out \in DOMAIN rels, in \in DOMAIN rels :
            /\ out.from = n /\ out.to = m
            /\ in.from = m /\ in.to = n
      /\ getRelationships(entities[n].id, NoFilter) # EmptyBag

(* The entities reachable from id in at most n hops over relationship edges *)
(* taken in either direction.                                               *)
RECURSIVE Within(_, _)
Within(id, n) ==
    IF n = 0 THEN {id}
    ELSE LET near == Within(id, n - 1) IN
         near \cup { t \in EntityIds : \E f \in near, r \in RelTypes :
                       EdgeCount(f, t, r) > 0 \/ EdgeCount(t, f, r) > 0 }

Linked(a, b, type) == EdgeCount(a, b, type) > 0 \/ EdgeCount(b, a, type) > 0

DepthInputs == 0..MaxRels

(* C18: for every maxDepth passed, findPath between two entities returns a  *)
(* path of minimum hop count over relationship edges in either direction    *)
(* when that count is at most maxDepth (entities in path order, pathLength  *)
(* + 1 of them, pathLength relationships) and null otherwise.               *)
C18_FindPathShortestWithinDepth ==
    \A fromId \in EntityIds, toId \in EntityIds, maxDepth \in DepthInputs :
      (fromId # toId /\ NodesWithId(fromId) # {} /\ NodesWithId(toId) # {}) =>
        \A result \in findPath(fromId, toId, maxDepth) :
          IF toId \in Within(fromId, maxDepth)
            THEN /\ result # NullPath
                 /\ toId \notin Within(fromId, result.pathLength - 1)
                 /\ Len(result.entities) = result.pathLength + 1
                 /\ Len(result.relationships) = result.pathLength
                 /\ result.entities[1] = fromId
                 /\ result.entities[Len(result.entities)] = toId
                 /\ \A i \in 1..result.pathLength :
                      Linked(result.entities[i], result.entities[i + 1], result.relationships[i].type)
            ELSE result = NullPath

LimitInputs == 1..MaxEntityNodes

(* The pages for offsets k * limit, (k + 1) * limit, ... one call each, put *)
(* end to end; MaxEntityNodes pages reach past the last row.                *)
RECURSIVE Pages(_, _, _)
Pages(componentType, limit, k) ==
    IF k = MaxEntityNodes THEN { << >> }
    ELSE { page \o rest : page \in getEntities(componentType, limit, k * limit),
                          rest \in Pages(componentType, limit, k + 1) }

(* The ids of the entities owning a component of the type, ascending. *)
MatchingIds(componentType) ==
    LET ids == { id \in EntityIds : \E n \in NodesWithId(id) : Owned(n, componentType) > 0 } IN
    CHOOSE s \in [1..Cardinality(ids) -> ids] :
        \A i, j \in DOMAIN s : i < j => IdRank(s[i]) < IdRank(s[j])

(* C19: the pages of getEntities(componentType, limit, offset) for offsets  *)
(* 0, limit, 2*limit, ... are disjoint and together list exactly the        *)
(* entities owning a component of componentType, each once, in ascending id *)
(* order, each with its complete component set.                             *)
C19_GetEntitiesPagination ==
    \A componentType \in TypeNames, limit \in LimitInputs :
      \A all \in Pages(componentType, limit, 0) :
        /\ [i \in DOMAIN all |-> all[i].id] = MatchingIds(componentType)
        /\ \A i \in DOMAIN all : all[i] \in getEntity(all[i].id)

(* At most one meta-node per name in either registry. *)
OneDescriptorPerName ==
    /\ \A name \in TypeNames :
         BagCardinality(Restrict(componentTypes, { ct \in DOMAIN componentTypes : ct.name = name })) <= 1
    /\ \A name \in RelTypes :
         BagCardinality(Restrict(relationshipTypes,
                                 { rt \in DOMAIN relationshipTypes : rt.name = name })) <= 1

(* The fields other than the description. *)
SameComponentFields(got, d) == got.name = d.name /\ got.properties = d.properties
SameRelationshipFields(got, d) ==
    /\ got.name = d.name
    /\ got.fromEntity = d.fromEntity
    /\ got.toEntity = d.toEntity
    /\ got.properties = d.properties
    /\ got.isBrickSchema = d.isBrickSchema

(* A registration is an upsert: the count grows by one for a new name and  *)
(* stays for a present one, and the other names keep their descriptors.    *)
UpsertComponentType(d) ==
    /\ getCount' = getCount + (IF getComponentType(d.name) = NoType THEN 1 ELSE 0)
    /\ \A other \in TypeNames \ {d.name} : getComponentType(other)' = getComponentType(other)
    /\ UNCHANGED relationshipTypes
UpsertRelationshipType(d) ==
    /\ getRelationshipTypeCount'
         = getRelationshipTypeCount + (IF getRelationshipType(d.name) = NoRelationshipType THEN 1 ELSE 0)
    /\ \A other \in RelTypes \ {d.name} : getRelationshipType(other)' = getRelationshipType(other)
    /\ UNCHANGED componentTypes

(* C20: registration in either registry is an upsert keyed by name: after  *)
(* registering d, get(d.name) returns d's fields, a name already present   *)
(* is overwritten with the count unchanged, and every reachable state has  *)
(* at most one descriptor per name.                                        *)
C20_RegisterUpsert ==
    /\ []OneDescriptorPerName
    /\ [][/\ \A d \in ComponentTypeInputs :
               registerComponentType(d) =>
                 /\ SameComponentFields(getComponentType(d.name)', d)
                 /\ getComponentType(d.name)'.description = DescriptionOf(d)
                 /\ UpsertComponentType(d)
          /\ \A d \in RelationshipTypeInputs :
               registerRelationshipType(d) =>
                 /\ SameRelationshipFields(getRelationshipType(d.name)', d)
                 /\ getRelationshipType(d.name)'.description = DescriptionOf(d)
                 /\ UpsertRelationshipType(d)]_vars

(* C20 as the code has it: as above, with an empty description read back   *)
(* as no description.                                                      *)
C20_RegisterUpsertEmptyDescriptionDropped ==
    /\ []OneDescriptorPerName
    /\ [][/\ \A d \in ComponentTypeInputs :
               registerComponentType(d) =>
                 /\ SameComponentFields(getComponentType(d.name)', d)
                 /\ getComponentType(d.name)'.description
                      = (IF DescriptionOf(d) = Str("") THEN Absent ELSE DescriptionOf(d))
                 /\ UpsertComponentType(d)
          /\ \A d \in RelationshipTypeInputs :
               registerRelationshipType(d) =>
                 /\ SameRelationshipFields(getRelationshipType(d.name)', d)
                 /\ getRelationshipType(d.name)'.description
                      = (IF DescriptionOf(d) = Str("") THEN Absent ELSE DescriptionOf(d))
                 /\ UpsertRelationshipType(d)]_vars

(* Both registries hold both names, Battery re-declared with the property  *)
(* list of AHU and a description, feeds as a Brick type towards AHU.       *)
C20_Witness ==
    /\ getCount = 2
    /\ getRelationshipTypeCount = 2
    /\ getComponentType("Battery")
         = [name |-> "Battery", properties |-> AHUType.properties, description |-> Str("cells")]
    /\ getComponentType("AHU").description = Absent
    /\ getRelationshipType("feeds").isBrickSchema
    /\ getRelationshipType("feeds").toEntity = "AHU"
    /\ getRelationshipType("controls").description = Str("moves air")

registries == <<componentTypes, relationshipTypes>>

NotFound(OP, name) ==
    /\ ret'.op = OP /\ ret'.status = "error"
    /\ ret'.error.kind = "NotFound" /\ ret'.error.subject = name
    /\ UNCHANGED registries

Refused(OP, name) ==
    /\ ret'.op = OP /\ ret'.status = "error"
    /\ ret'.error.kind = "BrickSchemaType" /\ ret'.error.subject = name
    /\ UNCHANGED registries

(* C21: deleting a type from either registry fails with NotFound and       *)
(* changes nothing when the name is not registered, and succeeds for every *)
(* registered name without further condition, after which exists(name) is  *)
(* false.                                                                  *)
C21_DeleteTypeUnconditional ==
    [][/\ \A name \in TypeNames :
            deleteComponentType(name) =>
              IF ~exists(name) THEN NotFound("deleteComponentType", name)
              ELSE ret'.status = "ok" /\ ~exists(name)'
       /\ \A name \in TypeNames :
            deleteComponentTypeBrick(name) =>
              IF ~exists(name) THEN NotFound("deleteComponentTypeBrick", name)
              ELSE ret'.status = "ok" /\ ~exists(name)'
       /\ \A name \in RelTypes :
            deleteRelationshipType(name) =>
              IF ~existsRelationshipType(name) THEN NotFound("deleteRelationshipType", name)
              ELSE ret'.status = "ok" /\ ~existsRelationshipType(name)']_vars

(* C21 as the code has it: the managers that track isBrickSchema refuse to *)
(* delete a type registered with isBrickSchema = true and leave it in      *)
(* place; every other registered name is deleted.                          *)
C21_DeleteTypeUnlessBrick ==
    [][/\ \A name \in TypeNames :
            deleteComponentType(name) =>
              IF ~exists(name) THEN NotFound("deleteComponentType", name)
              ELSE ret'.status = "ok" /\ ~exists(name)' /\ UNCHANGED relationshipTypes
       /\ \A name \in TypeNames :
            deleteComponentTypeBrick(name) =>
              IF ~exists(name) THEN NotFound("deleteComponentTypeBrick", name)
              ELSE IF \E ct \in DOMAIN componentTypes : ct.name = name /\ IsBrickSchema(ct)
                THEN Refused("deleteComponentTypeBrick", name)
                ELSE ret'.status = "ok" /\ ~exists(name)' /\ UNCHANGED relationshipTypes
       /\ \A name \in RelTypes :
            deleteRelationshipType(name) =>
              IF ~existsRelationshipType(name) THEN NotFound("deleteRelationshipType", name)
              ELSE IF \E rt \in DOMAIN relationshipTypes : rt.name = name /\ IsBrickSchema(rt)
                THEN Refused("deleteRelationshipType", name)
                ELSE ret'.status = "ok" /\ ~existsRelationshipType(name)' /\ UNCHANGED componentTypes]_vars

(* A delete of the custom relationship type feeds has succeeded while the  *)
(* other registered types stay.                                            *)
C21_Witness ==
    /\ ret.op = "deleteRelationshipType"
    /\ ret.status = "ok"
    /\ ~existsRelationshipType("feeds")
    /\ existsRelationshipType("controls")
    /\ exists("Battery")

(* Every property bag over the sample values, extra properties included. *)
AllProperties == [PropertyNames -> {Absent, N100, SLiIon, DDay}]

(* C22: validateComponent for a type name that is not registered returns   *)
(* valid = false with exactly one error, which names the type, whatever     *)
(* the properties are.                                                      *)
C22_UnknownTypeSingleError ==
    \A typeName \in TypeNames, properties \in AllProperties :
      ~exists(typeName) =>
        LET result == validateComponent(typeName, properties) IN
        /\ ~result.valid
        /\ Len(result.errors) = 1
        /\ result.errors[1] = [kind |-> "UnknownType", name |-> typeName]

(* Battery has been registered and deleted again while AHU is registered:  *)
(* Battery is unknown, AHU is not.                                          *)
C22_Witness ==
    /\ ret.op = "deleteComponentType"
    /\ ret.status = "ok"
    /\ ~exists("Battery")
    /\ exists("AHU")
    /\ ~validateComponent("Battery", Props("capacity", N100)).valid

(* The required properties the component's registered type declares and    *)
(* the component's property bag lacks.                                      *)
MissingRequired(component) ==
    LET type == getComponentType(component.componentType) IN
    IF type = NoType THEN {}
    ELSE { type.properties[i].name : i \in { j \in DOMAIN type.properties :
               /\ type.properties[j].required
               /\ ~HasKey(component.properties, type.properties[j].name) } }

(* The call failed with a validation error naming every such property of   *)
(* the given components, and wrote nothing.                                 *)
RejectedNaming(comps) ==
    /\ ret'.status = "error"
    /\ ret'.error.kind = "InvalidComponent"
    /\ \A i \in DOMAIN comps : \A p \in MissingRequired(comps[i]) :
         [kind |-> "MissingRequired", name |-> p] \in Range(ret'.error.errors)
    /\ UNCHANGED store

(* C23: createEntity, updateEntity, addComponent and updateComponent with a *)
(* component of a registered type whose property bag lacks a required       *)
(* property p fail with a validation error that names p, and write nothing. *)
C23_MissingRequiredRejected ==
    [][/\ \A id \in EntityIds, comps \in ComponentLists :
            (/\ \E i \in DOMAIN comps : MissingRequired(comps[i]) # {}
             /\ \/ ret'.op = "createEntity" /\ createEntity(id, comps)
                \/ ret'.op = "updateEntity" /\ NodesWithId(id) # {} /\ updateEntity(id, comps))
              => RejectedNaming(comps)
       /\ \A id \in EntityIds, c \in ComponentInputs :
            (/\ ret'.op = "addComponent"
             /\ MissingRequired(c) # {}
             /\ NodesWithId(id) # {}
             /\ \A n \in NodesWithId(id) : Owned(n, c.componentType) = 0
             /\ addComponent(id, c))
              => RejectedNaming(<<c>>)
       /\ \A id \in EntityIds, t \in TypeNames, p \in PropertyInputs :
            (/\ ret'.op = "updateComponent"
             /\ MissingRequired([componentType |-> t, properties |-> p]) # {}
             /\ NodesWithId(id) # {}
             /\ updateComponent(id, t, p))
              => RejectedNaming(<<[componentType |-> t, properties |-> p]>>)]_vars

(* Every property bag over one value of each JavaScript kind. *)
AllValues == {Absent, N100, SLiIon, DDay, BTrue, OEmpty}
AllBags == [PropertyNames -> AllValues]

(* The kind table: what value a declared kind accepts. *)
Matches(value, kind) ==
    CASE kind = "String" -> value \in {SLiIon}
      [] kind = "Number" -> value \in {N100}
      [] kind = "Boolean" -> value \in {BTrue}
      [] kind = "Date" -> value \in {SLiIon, DDay}
      [] OTHER -> TRUE

(* How many errors of the given kind name the given property. *)
ErrorCount(errors, kind, name) ==
    Cardinality({ i \in DOMAIN errors : errors[i] = [kind |-> kind, name |-> name] })
Declared(type, name, required) ==
    Cardinality({ i \in DOMAIN type.properties :
                    type.properties[i].name = name /\ type.properties[i].required = required })

(* C24: for a registered type validateComponent's result is determined by  *)
(* the declared properties only: a declared property gives a               *)
(* missing-required error iff it is required and absent, a type-mismatch   *)
(* error iff it is present and its value does not match the declared kind  *)
(* (JSON and unrecognized kinds match anything), undeclared properties     *)
(* give no error, and valid is true iff there is no error.                 *)
C24_ValidationByDeclaredProperties ==
    \A typeName \in TypeNames, properties \in AllBags :
      exists(typeName) =>
        LET type == getComponentType(typeName)
            result == validateComponent(typeName, properties) IN
        /\ result.valid = (result.errors = << >>)
        /\ \A name \in PropertyNames :
             /\ ErrorCount(result.errors, "MissingRequired", name)
                  = (IF properties[name] = Absent THEN Declared(type, name, TRUE) ELSE 0)
             /\ ErrorCount(result.errors, "InvalidType", name)
                  = Cardinality({ i \in DOMAIN type.properties :
                                    /\ type.properties[i].name = name
                                    /\ properties[name] # Absent
                                    /\ ~Matches(properties[name], type.properties[i].type) })
        /\ \A i \in DOMAIN result.errors :
             /\ result.errors[i].kind \in {"MissingRequired", "InvalidType"}
             /\ \E j \in DOMAIN type.properties : type.properties[j].name = result.errors[i].name
        /\ Len(result.errors)
             = Cardinality({ <<k, n>> \in {"MissingRequired", "InvalidType"} \X PropertyNames :
                               ErrorCount(result.errors, k, n) > 0 })

(* Battery declares capacity of a kind the validator does not know, AHU a  *)
(* required Boolean: an object passes the first, a number fails the second *)
(* and the undeclared chemistry is ignored.                                *)
C24_Witness ==
    /\ getComponentType("Battery").properties
         = << [name |-> "capacity", type |-> "Duration", required |-> TRUE] >>
    /\ getComponentType("AHU").properties
         = << [name |-> "installed", type |-> "Boolean", required |-> TRUE] >>
    /\ validateComponent("Battery", [Props("capacity", OEmpty) EXCEPT !["chemistry"] = N100]).valid
    /\ validateComponent("AHU", Props("installed", N100)).errors
         = << [kind |-> "InvalidType", name |-> "installed"] >>

(* The points the backend has accepted. *)
Delivered == UNION { Range(delivered[i]) : i \in DOMAIN delivered }

(* C25: once close() has returned successfully the timer is stopped and no  *)
(* timer-triggered flush starts again, every point that was in the buffer   *)
(* when close() was called has been handed to the backend, and the buffer   *)
(* is empty unless points were written after the call; when the final flush *)
(* fails, close() fails and those points are back in the buffer.            *)
C25_CloseFlushesAndStops ==
    /\ [](closing.state = "returned" =>
            /\ ~flushTimer
            /\ Range(closing.points) \subseteq Delivered
            /\ (written = closing.at => buffer = << >>))
    /\ [][/\ closing.state = "returned" =>
               \A i \in (DOMAIN sent') \ (DOMAIN sent) : sent'[i].by # "timer"
          /\ \A i \in 1..MaxSends :
               (writeRejected(i) /\ sent[i].by = "close") =>
                 /\ closing'.state = "failed"
                 /\ Range(closing.points) \subseteq Range(buffer')]_vars

(* C26: while the writer is open, with the timer firing and the backend    *)
(* eventually accepting, every point writePoint accepted is eventually     *)
(* delivered by a successful batch write, also when the buffer never       *)
(* reaches BATCH_SIZE.                                                     *)
C26_EveryPointEventuallyDelivered ==
    \A p \in 1..MaxWrites : (written >= p) ~> (p \in Delivered)

(* One point, fewer than BATCH_SIZE: the timer sent it, the backend        *)
(* rejected it, the timer sent it again and it was delivered.              *)
C26_Witness ==
    /\ written = 1
    /\ BATCH_SIZE > 1
    /\ Len(sent) = 2
    /\ sent[1].by = "timer" /\ sent[1].state = "failed"
    /\ sent[2].by = "timer" /\ sent[2].state = "ok"
    /\ delivered = << <<1>> >>
    /\ buffer = << >>

Finished(c) == calls[c].pc \in {"returned", "thrown"}

(* C27: of two createEntity calls with the same id, however their steps    *)
(* interleave, exactly one succeeds and the other fails once both have     *)
(* finished; exactly one entity with that id then exists and it owns       *)
(* exactly the components of the successful call.                          *)
C27_ConcurrentCreateOneWins ==
    \A a \in Callers, b \in Callers :
      (/\ a # b
       /\ Finished(a) /\ Finished(b)
       /\ calls[a].id = calls[b].id
       /\ calls[a].result # "InvalidComponent"
       /\ calls[b].result # "InvalidComponent")
        => /\ (calls[a].pc = "returned") # (calls[b].pc = "returned")
           /\ Cardinality(NodesWithId(calls[a].id)) = 1
           /\ \A c \in {a, b} : calls[c].pc = "returned" =>
                \A e \in getEntity(calls[c].id) : e.components = SeqToBag(calls[c].components)

(* C28: a step that registers, registers again or deletes a component type *)
(* leaves every entity, component instance and relationship as it was, and *)
(* getEntity answers for every id what it answered before; a createEntity  *)
(* step succeeds only with components that are valid under the registry as *)
(* it is at that step.                                                     *)
C28_TypeChangesLeaveInstances ==
    [][ /\ ( \/ \E data \in TypeRevisions : registerComponentType(data)
             \/ \E name \in TypeNames : deleteComponentType(name) )
            => /\ store' = store
               /\ \A id \in EntityIds : getEntity(id)' = getEntity(id)
        /\ \A id \in EntityIds, comps \in FrameLists :
             (createEntity(id, comps) /\ ret'.status = "ok") => ~AnyInvalid(comps)
      ]_vars

(* A component type has just been deleted while an entity still owns an    *)
(* instance of it, and another instance no longer satisfies the schema its *)
(* type was registered with afterwards; getEntity still returns both.      *)
C28_Witness ==
    /\ ret.op = "deleteComponentType" /\ ret.status = "ok"
    /\ \E n \in NodeIds, t \in TypeNames :
         /\ Owned(n, t) > 0
         /\ getComponentType(t) = NoType
         /\ \E e \in getEntity(entities[n].id) : \E c \in DOMAIN e.components : c.componentType = t
    /\ \E c \in DOMAIN components :
         /\ getComponentType(c.type) # NoType
         /\ ~validateComponent(c.type, JsonParse(c.properties)).valid

(* C29: once initializeSchema has completed, the uniqueness constraints on *)
(* Entity.id, ComponentType.name and RelationshipType.name are in force:   *)
(* every CREATE statement of constraints.cypher was handed to the store,   *)
(* the ones that follow comment lines in their chunk included.             *)
C29_ConstraintsInForce ==
    schemaReady =>
      /\ {"Entity.id", "ComponentType.name", "RelationshipType.name"} \subseteq constraints
      /\ \A i \in DOMAIN ConstraintsFile :
           ConstraintsFile[i].kind = "statement" =>
             ConstraintsFile[i].creates \in runCypherFile(ConstraintsFile)

Occurrences(p, points) == Cardinality({ k \in DOMAIN points : points[k] = p })

RECURSIVE Flatten(_)
Flatten(batches) ==
    IF batches = << >> THEN << >> ELSE Head(batches) \o Flatten(Tail(batches))

(* The batches whose backend write is in flight, in the order they were sent. *)
InFlight == SelectSeq(sent, LAMBDA s : s.state = "pending")
InFlightPoints == Flatten([k \in DOMAIN InFlight |-> InFlight[k].batch])

(* C31: every point writePoint has accepted is, in every reachable state, *)
(* exactly once in exactly one of the live buffer, a batch whose backend  *)
(* write is in flight, and the delivered batches; nothing else is there.  *)
C31_PointConservation ==
    /\ \A p \in 1..written :
         Occurrences(p, buffer) + Occurrences(p, InFlightPoints)
           + Occurrences(p, Flatten(delivered)) = 1
    /\ Range(buffer) \cup Range(InFlightPoints) \cup Delivered \subseteq 1..written

(* After a failed flush was re-buffered: one point delivered, one in      *)
(* flight and one in the buffer.                                          *)
C31_Witness ==
    /\ \E i \in DOMAIN sent : sent[i].state = "failed"
    /\ Delivered # {}
    /\ InFlightPoints # << >>
    /\ buffer # << >>
    /\ written = MaxWrites

(* C32: the delivered batches, concatenated in delivery order and         *)
(* followed by the live buffer, list the points in the order writePoint   *)
(* accepted them.                                                         *)
C32_WriteOrderPreserved ==
    LET points == Flatten(delivered) \o buffer IN
    \A j, k \in DOMAIN points : j < k => points[j] < points[k]

(* C33: no batch handed to the backend holds more than BATCH_SIZE points. *)
C33_BatchAtMostBatchSize ==
    \A i \in DOMAIN sent : Len(sent[i].batch) <= BATCH_SIZE

(* C34: of two addComponent calls for the same entity and the same         *)
(* componentType, however their steps interleave, at most one succeeds,    *)
(* and once both have finished with one of them successful the entity (one *)
(* node with that id) owns exactly one component of that type.             *)
C34_ConcurrentAddOneWins ==
    \A a \in Callers, b \in Callers :
      (/\ a # b /\ Finished(a) /\ Finished(b)
       /\ calls[a].id = calls[b].id
       /\ Cardinality(NodesWithId(calls[a].id)) = 1
       /\ Head(calls[a].components).componentType = Head(calls[b].components).componentType)
        => /\ ~(calls[a].pc = "returned" /\ calls[b].pc = "returned")
           /\ calls[a].pc = "returned" =>
                \A n \in NodesWithId(calls[a].id) :
                  Owned(n, Head(calls[a].components).componentType) = 1

(* C35: when the write transaction of a createRelationship(fromId, toId,   *)
(* type) call commits and the call returns without error, the store holds  *)
(* an edge of that type from an entity with fromId to an entity with toId. *)
C35_ReturnedRelationshipExists ==
    [][\A c \in Callers :
         (calls[c].pc = "relChecked" /\ calls'[c].pc = "returned")
           => \E r \in DOMAIN rels' :
                /\ r.type = calls[c].type
                /\ entities'[r.from].id = calls[c].id
                /\ entities'[r.to].id = calls[c].toId]_vars

(* C36: in every state reachable by interleaving the steps of createEntity, *)
(* updateEntity, addComponent, removeComponent, updateComponent and         *)
(* deleteEntity, every component is owned by an entity node that exists:    *)
(* no component outlives its owner.                                         *)
C36_NoOrphanComponent ==
    \A k \in DOMAIN components : k.owner \in NodeIds /\ entities[k.owner] # NoNode

(* The write transaction of an addComponent or updateEntity call ran after *)
(* a deleteEntity had removed its entity, while another entity owns a      *)
(* component.                                                              *)
C36_Witness ==
    /\ \E c \in Callers :
         /\ calls[c].pc \in {"addWritten", "updWritten"}
         /\ calls[c].components # << >>
         /\ NodesWithId(calls[c].id) = {}
    /\ \E c \in Callers : calls[c].pc = "returned" /\ calls[c].result = "true"
    /\ components # EmptyBag

(* C37: an updateComponent step never changes which component types a     *)
(* node owns; called for an existing entity with a registered type the     *)
(* entity does not own and properties that validate, it returns without    *)
(* error and leaves components, property bags, updatedAt and what          *)
(* getEntity returns unchanged.                                            *)
C37_UpdateComponentAddsNothing ==
    [][\A id \in EntityIds, t \in TypeNames, p \in {Props("capacity", N200)} :
         (ret'.op = "updateComponent" /\ now' = now /\ componentTypes' = componentTypes
            /\ updateComponent(id, t, p))
           => /\ \A n \in NodeIds, u \in TypeNames : Owned(n, u)' = Owned(n, u)
              /\ (/\ NodesWithId(id) # {}
                  /\ getComponentType(t) # NoType
                  /\ \A n \in NodesWithId(id) : Owned(n, t) = 0
                  /\ validateComponent(t, p).valid)
                   => /\ ret'.status = "ok"
                      /\ store' = store
                      /\ getEntity(id)' = getEntity(id)]_vars

(* updateComponent has returned without error in a store where entities   *)
(* exist and none owns a component, after the clock has moved on.          *)
C37_Witness ==
    /\ ret.op = "updateComponent" /\ ret.status = "ok"
    /\ components = EmptyBag
    /\ \E n \in NodeIds : entities[n] # NoNode /\ entities[n].updatedAt < now

(* A :ComponentType / :RelationshipType node of that name with isBrickSchema true. *)
BrickComponentType(name) ==
    \E ct \in DOMAIN componentTypes : ct.name = name /\ IsBrickSchema(ct)
BrickRelationshipType(name) ==
    \E rt \in DOMAIN relationshipTypes : rt.name = name /\ IsBrickSchema(rt)

(* C38: with every component and relationship type registered with        *)
(* isBrickSchema true at the start, each of them is in its registry in     *)
(* every state that define mutations and deletions can reach; and a delete *)
(* of a type that is a Brick type fails and changes neither registry.      *)
C38_BrickTypesStay ==
    /\ [](/\ \A name \in TypeNames : exists(name)
          /\ \A name \in RelTypes : existsRelationshipType(name))
    /\ [][/\ \A name \in TypeNames :
               (BrickComponentType(name) /\ deleteComponentTypeBrick(name))
                 => ret'.status = "error" /\ UNCHANGED registries
          /\ \A name \in RelTypes :
               (BrickRelationshipType(name) /\ deleteRelationshipType(name))
                 => ret'.status = "error" /\ UNCHANGED registries]_vars

(***************************************************************************)
(* C39  writeEntityMetrics writes a point whose value field is the first   *)
(* numeric metric, in the metrics' key order, among the keys other than    *)
(* value, and 0 when the metrics hold no number; every metric key other    *)
(* than value is a field of the point with the metric's own value.         *)
(***************************************************************************)
NumericMetrics(metrics) ==
    SelectSeq(metrics, LAMBDA m : m.value.kind = "number" /\ m.key # "value")

HasNumber(metrics) == \E i \in DOMAIN metrics : metrics[i].value.kind = "number"

LastPoint(points) == points[Len(points)]

C39_ValueIsFirstNumericMetric ==
    [][\A metrics \in MetricsInputs :
         writeEntityMetrics(metrics) =>
           LET point == LastPoint(pointFields') IN
             /\ NumericMetrics(metrics) # << >> =>
                   point["value"] = Head(NumericMetrics(metrics)).value
             /\ ~HasNumber(metrics) => point["value"] = N0
             /\ \A i \in DOMAIN metrics :
                  metrics[i].key # "value" => point[metrics[i].key] = metrics[i].value]_vars

====
